---- MODULE Spec2Model ----
(***************************************************************************)
(* A model of the SPICE netlist parsing engine (spice_craft core crate):   *)
(*   - the program assembler of SpiceFileParser::parse (.SUBCKT/.ENDS      *)
(*     folding),                                                           *)
(*   - the partial-parse code generated by #[derive(PartialParse)],        *)
(*   - the tokenizer SpiceLexer::tokenize with continuation merging.       *)
(* Each part has its own specification over the shared variables; the      *)
(* variables of the other parts stay at their idle values.                 *)
(***************************************************************************)
EXTENDS Integers, Sequences, FiniteSets, TLC

VARIABLES
    \* ---- SpiceFileParser::parse (parse.rs 321-411)
    asmPc,          \* "start" | "fold" | "done"
    lines,          \* the token lines handed to the parser, one abstract line each
    instructions,   \* the flat instruction list built by the first loop
    idx,            \* position of the second loop in `instructions`
    stack,          \* Vec<Vec<Instruction>>: bodies in progress
    subckts,        \* Vec<SubcktCommand>: open .SUBCKT records
    name,           \* Program.name (the title line), NoName when absent
    result,         \* the ParseResult<Program> returned, NoResult while running
    \* ---- a line being typed, partial-parsed after every token
    toks,           \* the tokens of the line typed so far
    free,           \* how many of them were typed outside the sample lines
    log,            \* log[k]: what the partial-parse entry points returned on toks[1..k]
    full,           \* what the full line parse returns on toks, NoResult before typing
    \* ---- a source text being typed, tokenized after every character
    code,           \* the characters of the text typed so far
    nfree,          \* how many of them were typed outside the sample texts
    out,            \* what SpiceLexer::tokenize returns on code, NoResult before typing
    \* ---- Worker::work expanding the includes of a file (grammar.rs 31-79)
    fs,             \* the files on disk: path |-> the instructions the file parses to
    visit,          \* Worker.visit
    calls,          \* the calls of work in progress, innermost last
    ret,            \* what the call that just ended returned, NoResult otherwise
    \* ---- the language server's document cache (lsp-server: state.rs, diagnostics.rs)
    doc,            \* ServerState.documents[uri] for the one document of the model
    tasks,          \* the did_open / did_change handlers in flight
    diags,          \* the diagnostics last published for the document
    notes,          \* the number of notifications received
    overlap         \* two handlers have been in flight at the same time

asmVars == <<asmPc, lines, instructions, idx, stack, subckts, name, result>>
ppVars == <<toks, free, log, full>>
lexVars == <<code, nfree, out>>

incVars == <<fs, visit, calls, ret>>

lspVars == <<doc, tasks, diags, notes, overlap>>

vars == <<asmVars, ppVars, lexVars, incVars, lspVars>>

----------------------------------------------------------------------------
(***************************************************************************)
(* Bounds                                                                  *)
(***************************************************************************)
MaxLines == 5
\* tokens typed freely after a prefix of a sample line
MaxFree == 2
\* characters typed freely after a prefix of a sample text
MaxChars == 2

(***************************************************************************)
(* Common helpers                                                          *)
(***************************************************************************)
NoName == "-"
NoResult == [kind |-> "none"]

\* no expansion is running
IncIdle == fs = <<>> /\ visit = {} /\ calls = <<>> /\ ret = NoResult

\* no language server is running
LspIdle ==
    doc = NoResult /\ tasks = <<>> /\ diags = <<>> /\ notes = 0 /\ overlap = FALSE

Last(s) == s[Len(s)]
Front(s) == SubSeq(s, 1, Len(s) - 1)

\* All sequences over S of length 0..n
SeqsUpTo(S, n) == UNION {[1..k -> S] : k \in 0..n}

----------------------------------------------------------------------------
(***************************************************************************)
(* Program assembler: SpiceFileParser::parse                               *)
(***************************************************************************)

\* The lines the assembler is driven with.  A line is abstracted to what the
\* assembler can observe of it: its head token and, for .SUBCKT/.ENDS, the name.
\*   "TITLE"  a line of one token that does not start with "."
SubcktNames == {"a", "b"}
EndsNames == {NoName, "a"}
LineKinds ==
    {[head |-> ".SUBCKT", arg |-> n] : n \in SubcktNames}
    \cup {[head |-> ".ENDS", arg |-> n] : n \in EndsNames}
    \cup {[head |-> h, arg |-> NoName] : h \in {"R1", ".OP", "TITLE"}}

\* Err(ParseError { reason, .. })
Err(reason) == [kind |-> "err", reason |-> reason]
\* Ok(Program { name, instructions })
OkProgram(n, insts) == [kind |-> "ok", name |-> n, instructions |-> insts]

Instr(type, n) == [type |-> type, name |-> n, instructions |-> <<>>]

\* The instruction a line parses to (Command / Component try_parse followed by
\* expect_eof), or an error.  A one-token line that is not a dot-command has no
\* node fields: the component rule runs out of tokens.
ParseLine(line) ==
    CASE line.head = ".SUBCKT" -> Instr("Subckt", line.arg)
      [] line.head = ".ENDS"   -> Instr("Ends", line.arg)
      [] line.head = ".OP"     -> Instr("Command", ".OP")
      [] line.head = "R1"      -> Instr("Component", "R1")
      [] OTHER                 -> Err("Unexpected EOF")

\* parse.rs 322-329: a first line of exactly one token that does not start
\* with "." is the program's name and is skipped.
HasTitle(ls) == Len(ls) > 0 /\ ls[1].head = "TITLE"
TitleOf(ls) == IF HasTitle(ls) THEN "TITLE" ELSE NoName
BodyLines(ls) == IF HasTitle(ls) THEN Tail(ls) ELSE ls

\* parse.rs 333-354: the first loop; the first line that fails ends the parse.
RECURSIVE ParseLines(_)
ParseLines(ls) ==
    IF ls = <<>> THEN [kind |-> "ok", instructions |-> <<>>]
    ELSE LET inst == ParseLine(Head(ls)) IN
         IF "kind" \in DOMAIN inst THEN inst
         ELSE LET rest == ParseLines(Tail(ls)) IN
              IF rest.kind = "err" THEN rest
              ELSE [kind |-> "ok", instructions |-> <<inst>> \o rest.instructions]

\* stack.last_mut().unwrap().push(inst)
PushTop(st, inst) == [st EXCEPT ![Len(st)] = Append(@, inst)]

\* FoldEnds with the line `subckt.instructions = instructions` left out.
FoldEndsDropBody(st, subs, ends) ==
    IF subs = <<>>
    THEN [stack |-> st, subckts |-> subs, result |-> Err("Unmatched .ENDS")]
    ELSE LET subckt == Last(subs)
             subs1 == Front(subs)
         IN IF ends.name # NoName /\ ends.name # subckt.name
            THEN [stack |-> st, subckts |-> subs1, result |-> Err("Unmatched .ENDS")]
            ELSE [stack |-> PushTop(Front(st), subckt), subckts |-> subs1,
                  result |-> NoResult]

\* FoldEnds with a named .ENDS accepted when it names any open .SUBCKT.
FoldEndsAnyOpen(st, subs, ends) ==
    IF subs = <<>>
    THEN [stack |-> st, subckts |-> subs, result |-> Err("Unmatched .ENDS")]
    ELSE LET subckt == Last(subs)
             subs1 == Front(subs)
         IN IF ends.name # NoName /\ \A i \in 1..Len(subs) : ends.name # subs[i].name
            THEN [stack |-> st, subckts |-> subs1, result |-> Err("Unmatched .ENDS")]
            ELSE IF Len(st) < 2
            THEN [stack |-> st, subckts |-> subs1, result |-> [kind |-> "panic"]]
            ELSE LET body == Last(st)
                     done == [subckt EXCEPT !.instructions = body]
                 IN [stack |-> PushTop(Front(st), done), subckts |-> subs1,
                     result |-> NoResult]

\* parse.rs 366-389: Command::Ends.  Returns the new loop state.
FoldEnds(st, subs, ends) ==
    IF subs = <<>>
    THEN [stack |-> st, subckts |-> subs, result |-> Err("Unmatched .ENDS")]
    ELSE LET subckt == Last(subs)
             subs1 == Front(subs)
         IN IF ends.name # NoName /\ ends.name # subckt.name
            THEN [stack |-> st, subckts |-> subs1, result |-> Err("Unmatched .ENDS")]
            ELSE IF Len(st) < 2
            THEN [stack |-> st, subckts |-> subs1, result |-> [kind |-> "panic"]]
            ELSE LET body == Last(st)
                     done == [subckt EXCEPT !.instructions = body]
                 IN [stack |-> PushTop(Front(st), done), subckts |-> subs1,
                     result |-> NoResult]

\* parse.rs 359-399: one iteration of the second loop.
FoldInst(st, subs, inst) ==
    CASE inst.type = "Subckt" ->
            [stack |-> Append(st, <<>>), subckts |-> Append(subs, inst),
             result |-> NoResult]
      [] inst.type = "Ends" -> FoldEnds(st, subs, inst)
      [] OTHER -> [stack |-> PushTop(st, inst), subckts |-> subs, result |-> NoResult]

\* FoldFinish without the `stack.len() != 1` check.
FoldFinishNoCheck(st, n) == OkProgram(n, st[1])

\* parse.rs 401-410
FoldFinish(st, n) ==
    IF Len(st) # 1 THEN Err("Missing .ENDS for .SUBCKT")
    ELSE OkProgram(n, Last(st))

AsmInit ==
    /\ asmPc = "start"
    /\ lines \in SeqsUpTo(LineKinds, MaxLines)
    /\ instructions = <<>>
    /\ idx = 1
    /\ stack = <<>>
    /\ subckts = <<>>
    /\ name = NoName
    /\ result = NoResult
    /\ toks = <<>> /\ free = 0 /\ log = <<>> /\ full = NoResult
    /\ code = <<>> /\ nfree = 0 /\ out = NoResult
    /\ IncIdle
    /\ LspIdle

\* parse.rs 322-357
AsmParseLines ==
    /\ asmPc = "start"
    /\ LET r == ParseLines(BodyLines(lines)) IN
       /\ name' = TitleOf(lines)
       /\ IF r.kind = "err"
          THEN /\ result' = r
               /\ asmPc' = "done"
               /\ UNCHANGED <<instructions, stack>>
          ELSE /\ instructions' = r.instructions
               /\ stack' = << <<>> >>
               /\ asmPc' = "fold"
               /\ UNCHANGED result
    /\ UNCHANGED <<lines, idx, subckts, ppVars, lexVars, incVars, lspVars>>

\* parse.rs 359-399
AsmFoldStep ==
    /\ asmPc = "fold"
    /\ idx <= Len(instructions)
    /\ LET s == FoldInst(stack, subckts, instructions[idx]) IN
       /\ stack' = s.stack
       /\ subckts' = s.subckts
       /\ result' = s.result
       /\ asmPc' = IF s.result = NoResult THEN "fold" ELSE "done"
    /\ idx' = idx + 1
    /\ UNCHANGED <<lines, instructions, name, ppVars, lexVars, incVars, lspVars>>

\* parse.rs 401-410
AsmFinish ==
    /\ asmPc = "fold"
    /\ idx > Len(instructions)
    /\ result' = FoldFinish(stack, name)
    /\ asmPc' = "done"
    /\ UNCHANGED <<lines, instructions, idx, stack, subckts, name, ppVars, lexVars, incVars, lspVars>>

AsmNext == AsmParseLines \/ AsmFoldStep \/ AsmFinish

SpecAsm == AsmInit /\ [][AsmNext]_vars

----------------------------------------------------------------------------
(***************************************************************************)
(* Properties of the program assembler                                     *)
(***************************************************************************)

\* The instruction a line stands for, and the marker structure of an input.
AllLinesParse(ls) == \A i \in 1..Len(ls) : "kind" \notin DOMAIN ParseLine(ls[i])
InstsOf(ls) == [i \in 1..Len(ls) |-> ParseLine(ls[i])]

\* Number of .SUBCKT markers minus number of .ENDS markers in the first k lines.
Depth(ls, k) ==
    Cardinality({i \in 1..k : ls[i].head = ".SUBCKT"})
    - Cardinality({i \in 1..k : ls[i].head = ".ENDS"})

\* Balanced: no .ENDS while nothing is open, nothing open at the end.
Balanced(ls) ==
    /\ \A k \in 1..Len(ls) : Depth(ls, k) >= 0
    /\ Depth(ls, Len(ls)) = 0

\* For a balanced input, the .SUBCKT line that the .ENDS at line e closes:
\* the nearest earlier .SUBCKT line at the same depth.
OpenerOf(ls, e) ==
    CHOOSE s \in 1..e :
        /\ ls[s].head = ".SUBCKT"
        /\ Depth(ls, s) = Depth(ls, e) + 1
        /\ \A t \in (s+1)..e : Depth(ls, t) >= Depth(ls, e) + (IF t = e THEN 0 ELSE 1)

\* Well-formed: balanced, and every named .ENDS names the .SUBCKT it closes.
WellFormed(ls) ==
    /\ Balanced(ls)
    /\ \A e \in 1..Len(ls) :
          (ls[e].head = ".ENDS" /\ ls[e].arg # NoName)
              => ls[OpenerOf(ls, e)].arg = ls[e].arg

\* The tree a well-formed marker structure denotes, by recursive descent:
\* the body that starts at instruction i, up to its closing .ENDS (or the end).
RECURSIVE RefBody(_, _)
RefBody(insts, i) ==
    IF i > Len(insts) \/ insts[i].type = "Ends"
    THEN [body |-> <<>>, next |-> i]
    ELSE IF insts[i].type = "Subckt"
    THEN LET inner == RefBody(insts, i + 1)
             rest == RefBody(insts, inner.next + 1)
         IN [body |-> <<[insts[i] EXCEPT !.instructions = inner.body]>> \o rest.body,
             next |-> rest.next]
    ELSE LET rest == RefBody(insts, i + 1)
         IN [body |-> <<insts[i]>> \o rest.body, next |-> rest.next]

RECURSIVE NoEndsIn(_)
NoEndsIn(body) ==
    \A i \in 1..Len(body) :
        body[i].type # "Ends" /\ NoEndsIn(body[i].instructions)

RECURSIVE CountSubckt(_)
CountSubckt(body) ==
    IF body = <<>> THEN 0
    ELSE (IF Head(body).type = "Subckt" THEN 1 ELSE 0)
         + CountSubckt(Head(body).instructions) + CountSubckt(Tail(body))

\* C1: for a well-formed input whose lines all parse, the parse returns a
\* Program whose instruction tree is the one the markers denote: one Subckt
\* per .SUBCKT/.ENDS pair, at the place of the pair, holding the instructions
\* between the markers in source order; no .ENDS remains at any depth.
C1_SubcktFolding ==
    (asmPc = "done" /\ AllLinesParse(BodyLines(lines)) /\ WellFormed(BodyLines(lines)))
        => /\ result.kind = "ok"
           /\ result.instructions = RefBody(InstsOf(BodyLines(lines)), 1).body
           /\ NoEndsIn(result.instructions)
           /\ CountSubckt(result.instructions)
                = Cardinality({i \in 1..Len(lines) : lines[i].head = ".SUBCKT"})

\* A subcircuit nested in a subcircuit, closed by a named and an unnamed .ENDS.
C1_Witness ==
    /\ asmPc = "done"
    /\ result.kind = "ok"
    /\ WellFormed(BodyLines(lines))
    /\ \E i \in 1..Len(result.instructions) :
          LET outer == result.instructions[i] IN
          /\ outer.type = "Subckt"
          /\ \E j \in 1..Len(outer.instructions) :
                /\ outer.instructions[j].type = "Subckt"
                /\ outer.instructions[j].instructions # <<>>
    /\ \E e \in 1..Len(lines) : lines[e].head = ".ENDS" /\ lines[e].arg # NoName

StructuralReasons == {"Unmatched .ENDS", "Missing .ENDS for .SUBCKT"}

C2_WitnessUnmatched ==
    /\ asmPc = "done"
    /\ AllLinesParse(BodyLines(lines))
    /\ \E k \in 1..Len(lines) : Depth(lines, k) < 0
    /\ result = Err("Unmatched .ENDS")

----------------------------------------------------------------------------
(***************************************************************************)
(* Tokens and characters                                                   *)
(***************************************************************************)

\* A token's raw text is a string; Spell gives its characters, so that the
\* character tests of the parsers are computed rather than tabulated.
Spell(s) ==
    CASE s = "R1"    -> <<"R", "1">>
      [] s = "Q1"    -> <<"Q", "1">>
      [] s = "X1"    -> <<"X", "1">>
      [] s = ".ac"   -> <<".", "a", "c">>
      [] s = "1"     -> <<"1">>
      [] s = "1k"    -> <<"1", "k">>
      [] s = "NPN"   -> <<"N", "P", "N">>
      [] s = "OCT"   -> <<"O", "C", "T">>
      [] s = "$G"    -> <<"$", "G">>
      [] s = "$EOF"  -> <<"$", "E", "O", "F">>
      [] s = "tc"    -> <<"t", "c">>
      [] s = "["     -> <<"[">>
      [] s = "]"     -> <<"]">>
      [] s = "="     -> <<"=">>
      [] s = "-"     -> <<"-">>
      \* operators of the expression grammar
      [] s = "**" -> <<"*", "*">>
      [] s = "*" -> <<"*">>
      [] s = "/" -> <<"/">>
      [] s = "+" -> <<"+">>
      [] s = "&" -> <<"&">>
      [] s = "^" -> <<"^">>
      [] s = "|" -> <<"|">>
      [] s = "<" -> <<"<">>
      [] s = ">" -> <<">">>
      [] s = "<=" -> <<"<", "=">>
      [] s = ">=" -> <<">", "=">>
      [] s = "==" -> <<"=", "=">>
      [] s = "!=" -> <<"!", "=">>
      [] s = "(" -> <<"(">>
      [] s = ")" -> <<")">>
      [] s = "?" -> <<"?">>
      [] s = ":" -> <<":">>
      [] s = "~" -> <<"~">>
      [] s = "{" -> <<"{">>
      [] s = "}" -> <<"}">>
      \* literals of the grammar and of the error messages
      [] s = ".AC"   -> <<".", "A", "C">>
      [] s = ".temp" -> <<".", "t", "e", "m", "p">>
      [] s = ".TEMP" -> <<".", "T", "E", "M", "P">>
      [] s = ".mc"   -> <<".", "m", "c">>
      [] s = ".MC"   -> <<".", "M", "C">>
      [] s = ".FUNC" -> <<".", "F", "U", "N", "C">>
      [] s = "LIN"   -> <<"L", "I", "N">>
      [] s = "DEC"   -> <<"D", "E", "C">>
      [] s = "PARAM" -> <<"P", "A", "R", "A", "M">>
      [] s = "TEXT"  -> <<"T", "E", "X", "T">>
      [] s = "TC"    -> <<"T", "C">>
      [] s = "Z0"    -> <<"Z", "0">>
      [] s = "TD"    -> <<"T", "D">>
      [] s = "F"     -> <<"F">>
      [] s = "NL"    -> <<"N", "L">>
      [] s = "IC"    -> <<"I", "C">>
      [] s = "LEN"   -> <<"L", "E", "N">>
      [] s = "R"     -> <<"R">>
      [] s = "L"     -> <<"L">>
      [] s = "G"     -> <<"G">>
      [] s = "C"     -> <<"C">>
      [] s = "<EOF>" -> <<"<", "E", "O", "F", ">">>
      [] s = "<string>" -> <<"<", "s", "t", "r", "i", "n", "g", ">">>

\* The tokens typed freely; the sample lines have more.
Vocab == {"R1", "Q1", "1", "1k", "NPN", "$G", "$EOF", "[", "=", "-"}

AsciiDigits == {"0", "1", "2", "3", "4", "5", "6", "7", "8", "9"}
AsciiLower == <<"a", "b", "c", "d", "e", "f", "g", "h", "i", "j", "k", "l", "m",
                "n", "o", "p", "q", "r", "s", "t", "u", "v", "w", "x", "y", "z">>
AsciiUpper == <<"A", "B", "C", "D", "E", "F", "G", "H", "I", "J", "K", "L", "M",
                "N", "O", "P", "Q", "R", "S", "T", "U", "V", "W", "X", "Y", "Z">>
Range(s) == {s[i] : i \in DOMAIN s}

IsAsciiDigit(c) == c \in AsciiDigits
IsAsciiAlphabetic(c) == c \in Range(AsciiLower) \cup Range(AsciiUpper)
IsAsciiAlphanumeric(c) == IsAsciiDigit(c) \/ IsAsciiAlphabetic(c)

ToAsciiUppercase(c) ==
    IF c \in Range(AsciiLower)
    THEN AsciiUpper[CHOOSE i \in DOMAIN AsciiLower : AsciiLower[i] = c]
    ELSE c
ToAsciiLowercase(c) ==
    IF c \in Range(AsciiUpper)
    THEN AsciiLower[CHOOSE i \in DOMAIN AsciiUpper : AsciiUpper[i] = c]
    ELSE c
UpperStr(cs) == [i \in 1..Len(cs) |-> ToAsciiUppercase(cs[i])]
LowerStr(cs) == [i \in 1..Len(cs) |-> ToAsciiLowercase(cs[i])]

\* str::starts_with, str::contains
StartsWith(cs, pat) == Len(pat) <= Len(cs) /\ SubSeq(cs, 1, Len(pat)) = pat
Contains(cs, pat) ==
    \E i \in 0..(Len(cs) - Len(pat)) : SubSeq(cs, i + 1, i + Len(pat)) = pat

\* ast/mod.rs 119-127
IsValidDigitsNodeName(cs) == \A i \in 1..Len(cs) : IsAsciiDigit(cs[i])
IsValidNodeName(cs) ==
    \A i \in 1..Len(cs) : IsAsciiAlphanumeric(cs[i]) \/ cs[i] \in {"_", "$"}

\* ast/mod.rs 225-231: [a-zA-Z][a-zA-Z0-9_]*
IsName(cs) ==
    /\ cs # <<>>
    /\ IsAsciiAlphabetic(cs[1])
    /\ \A i \in 2..Len(cs) : IsAsciiAlphanumeric(cs[i]) \/ cs[i] = "_"

\* value.rs 20-27: the text is lower-cased and a float is read from its front
\* (with an optional suffix); what follows the float is ignored.  A float starts
\* with digits, or with "." and a digit, or is "inf"/"nan".  The vocabulary has
\* no signed or exponent forms.
ToNumberOk(cs) ==
    LET n == LowerStr(cs) IN
    \/ n # <<>> /\ IsAsciiDigit(n[1])
    \/ Len(n) >= 2 /\ n[1] = "." /\ IsAsciiDigit(n[2])
    \/ StartsWith(n, <<"i", "n", "f">>)
    \/ StartsWith(n, <<"n", "a", "n">>)

----------------------------------------------------------------------------
(***************************************************************************)
(* The token cursor (trait TokenStream over SpiceLineParser) and the       *)
(* TryParse implementations of the field types.  A parser takes the token  *)
(* line ts and the 0-based cursor p and returns its outcome together with  *)
(* the cursor it leaves behind.                                            *)
(***************************************************************************)
NoReason == [fmt |-> "", args |-> <<>>]
Ok(p) == [st |-> "ok", pos |-> p, reason |-> NoReason]
\* Err(ParseError { reason: format!(fmt, args..), .. })
Fail(p, fmt, args) == [st |-> "err", pos |-> p, reason |-> [fmt |-> fmt, args |-> args]]
\* the thread panics
Panic(p) == [st |-> "panic", pos |-> p, reason |-> NoReason]

\* ParseError::unexpected_eof / ParseError::unexpected
UnexpectedEof(p) == Fail(p, "Unexpected EOF", <<>>)
Unexpected(p, expect, actual) == Fail(p, "Expect `{}', found `{}'", <<expect, actual>>)

\* e.reason.contains("EOF"): the text of the format string or of an argument.
\* Of the format strings only "Unexpected EOF" holds the letters EOF.
ReasonContainsEOF(r) ==
    \/ r.fmt = "Unexpected EOF"
    \/ \E i \in DOMAIN r.args : Contains(Spell(r.args[i]), <<"E", "O", "F">>)

IsEof(ts, p) == p >= Len(ts)
NextEof(ts, p) == p + 1 >= Len(ts)
Raw(ts, p) == ts[p + 1]

\* token() with `get(..).unwrap()` in place of `ok_or_else(unexpected_eof)`.
TokenUnwrap(ts, p) == IF p < Len(ts) THEN Ok(p) ELSE Panic(p)

\* parse.rs 104-108: the current token, an error at the end of the line
Token(ts, p) == IF p < Len(ts) THEN Ok(p) ELSE UnexpectedEof(p)

\* parse.rs 118-122, 135-139
Matches(ts, p, m) ==
    p < Len(ts) /\ UpperStr(Spell(Raw(ts, p))) = UpperStr(Spell(m))
NextMatches(ts, p, m) == Matches(ts, p + 1, m)

\* parse.rs 152-163
Expect(ts, p, lit) ==
    LET t == Token(ts, p) IN
    IF t.st # "ok" THEN t
    ELSE IF UpperStr(Spell(Raw(ts, p))) # UpperStr(Spell(lit))
    THEN Unexpected(p, lit, Raw(ts, p))
    ELSE Ok(p + 1)

\* parse.rs 166-177
ExpectEof(ts, p) ==
    IF IsEof(ts, p) THEN Ok(p)
    ELSE LET t == Token(ts, p) IN
         IF t.st # "ok" THEN t ELSE Unexpected(p, "<EOF>", Raw(ts, p))

\* ast/mod.rs 221-236
ParseName(ts, p) ==
    LET t == Token(ts, p) IN
    IF t.st # "ok" THEN t
    ELSE IF IsName(Spell(Raw(ts, p))) THEN Ok(p + 1)
    ELSE Fail(p, "Expect `{}' to be a name", <<Raw(ts, p)>>)

\* ast/mod.rs 136-156
ParseNode(ts, p) ==
    LET bracket == Matches(ts, p, "[")
        p1 == IF bracket THEN p + 1 ELSE p
        t == Token(ts, p1)
    IN IF t.st # "ok" THEN t
       ELSE IF IsValidNodeName(Spell(Raw(ts, p1)))
       THEN IF bracket THEN Expect(ts, p1 + 1, "]") ELSE Ok(p1 + 1)
       ELSE Fail(p1, "Expect `{}' to be a node", <<Raw(ts, p1)>>)

\* ast/mod.rs 176-209
ParseExplicitNode(ts, p) ==
    IF Matches(ts, p, "[")
    THEN LET t == Token(ts, p + 1) IN
         IF t.st # "ok" THEN t
         ELSE IF IsValidNodeName(Spell(Raw(ts, p + 1)))
         THEN Expect(ts, p + 2, "]")
         ELSE Fail(p + 1, "Expect `{}' to be a node", <<Raw(ts, p + 1)>>)
    ELSE LET t == Token(ts, p) IN
         IF t.st # "ok" THEN t
         ELSE IF IsValidDigitsNodeName(Spell(Raw(ts, p))) THEN Ok(p + 1)
         ELSE Fail(p, "Expect `{}' to be an explicit node", <<Raw(ts, p)>>)

\* ast/expression.rs 76-99
ParseLiteral(ts, p) ==
    LET p1 == IF Matches(ts, p, "-") THEN p + 1 ELSE p
        t == Token(ts, p1)
    IN IF t.st # "ok" THEN t
       ELSE IF ToNumberOk(Spell(Raw(ts, p1))) THEN Ok(p1 + 1)
       ELSE Unexpected(p1, "<string>", Raw(ts, p1))

\* ---- the expression grammar (ast/expression.rs 103-461)
\* An outcome with the parsed tree: <<"ident", t>>, <<"lit", t>>, <<"neg", t>>
\* for a negated literal, <<"paren", e>>, <<"call", name, args>>,
\* <<"pos" | "minus" | "not", e>>, <<op, left, right>>, <<"?", c, t, e>>.
EOk(p, tree) == [st |-> "ok", pos |-> p, reason |-> NoReason, tree |-> tree]
ENone(r) == [st |-> r.st, pos |-> r.pos, reason |-> r.reason, tree |-> <<>>]
Plain(r) == [st |-> r.st, pos |-> r.pos, reason |-> r.reason]

\* TierOps with the operators of mul/div and add/sub exchanged
TierOpsAddFirst(n) ==
    CASE n = 3 -> {"**"}
      [] n = 4 -> {"+", "-"}
      [] n = 5 -> {"*", "/"}
      [] n = 6 -> {"&"}
      [] n = 7 -> {"^"}
      [] n = 8 -> {"|"}
      [] n = 9 -> {">=", "<=", ">", "<"}
      [] n = 10 -> {"==", "!="}
      [] OTHER -> {}

\* the binary operators of tier n
TierOps(n) ==
    CASE n = 3 -> {"**"}
      [] n = 4 -> {"*", "/"}
      [] n = 5 -> {"+", "-"}
      [] n = 6 -> {"&"}
      [] n = 7 -> {"^"}
      [] n = 8 -> {"|"}
      [] n = 9 -> {">=", "<=", ">", "<"}
      [] n = 10 -> {"==", "!="}
      [] OTHER -> {}

\* the operator of tier n under the cursor, "" when there is none
OpAt(n, ts, p) ==
    IF \E op \in TierOps(n) : Matches(ts, p, op)
    THEN CHOOSE op \in TierOps(n) : Matches(ts, p, op)
    ELSE ""

\* Ok(Variant(Box::new(left), Box::new(right?))) and Ok(Variant(Box::new(e?)))
Bin(op, left, right) ==
    IF right.st # "ok" THEN right ELSE EOk(right.pos, <<op, left.tree, right.tree>>)
Unary(op, e) == IF e.st # "ok" THEN e ELSE EOk(e.pos, <<op, e.tree>>)

\* expression.rs 76-99 with the value kept
LiteralLeaf(ts, p, r) ==
    IF r.st # "ok" THEN ENone(r)
    ELSE EOk(r.pos, IF Matches(ts, p, "-") THEN <<"neg", Raw(ts, p + 1)>>
                    ELSE <<"lit", Raw(ts, p)>>)

RECURSIVE ParseFactor(_, _, _), FoldTier(_, _, _), CallArgs(_, _, _, _)

\* expression.rs 136-138: self.expect(")")? after the inner expression
CloseParen(ts, e) ==
    IF e.st # "ok" THEN e
    ELSE IF Expect(ts, e.pos, ")").st # "ok" THEN ENone(Expect(ts, e.pos, ")"))
    ELSE EOk(e.pos + 1, <<"paren", e.tree>>)

\* expression.rs 146-148: one more argument, e being what its parse returned
CallArg(ts, callee, args, e) ==
    IF e.st # "ok" THEN e ELSE CallArgs(ts, e.pos, callee, Append(args, e.tree))

\* expression.rs 145-153: while !self.matches_consume(")") { push(try_parse()?) }
CallArgs(ts, p, callee, args) ==
    IF Matches(ts, p, ")") THEN EOk(p + 1, <<"call", callee, args>>)
    ELSE CallArg(ts, callee, args, ParseFactor(11, ts, p))

\* FoldTier that parses the right operand at its own tier
FoldTierRight(n, ts, left) ==
    IF left.st # "ok" \/ OpAt(n, ts, left.pos) = "" THEN left
    ELSE Bin(OpAt(n, ts, left.pos), left, ParseFactor(n, ts, left.pos + 1))

\* expression.rs 232-244, 262-274, 291-295, 312-316, 333-337: the loop that
\* folds `left op right` into left while an operator of the tier follows
FoldTier(n, ts, left) ==
    IF left.st # "ok" \/ OpAt(n, ts, left.pos) = "" THEN left
    ELSE FoldTier(n, ts, Bin(OpAt(n, ts, left.pos), left,
                             ParseFactor(n - 1, ts, left.pos + 1)))

\* expression.rs 207-213, 357-367, 385-391: at most one operator of the tier,
\* the right operand at tier m
OnceTier(n, m, ts, left) ==
    IF left.st # "ok" \/ OpAt(n, ts, left.pos) = "" THEN left
    ELSE Bin(OpAt(n, ts, left.pos), left, ParseFactor(m, ts, left.pos + 1))

\* expression.rs 414-424: cond ? then : else
TernaryElse(ts, cond, thenB, elseB) ==
    IF elseB.st # "ok" THEN elseB
    ELSE EOk(elseB.pos, <<"?", cond.tree, thenB.tree, elseB.tree>>)
TernaryThen(ts, cond, thenB) ==
    IF thenB.st # "ok" THEN thenB
    ELSE IF Expect(ts, thenB.pos, ":").st # "ok" THEN ENone(Expect(ts, thenB.pos, ":"))
    ELSE TernaryElse(ts, cond, thenB, ParseFactor(11, ts, thenB.pos + 1))
Ternary(ts, cond) ==
    IF cond.st # "ok" \/ ~Matches(ts, cond.pos, "?") THEN cond
    ELSE TernaryThen(ts, cond, ParseFactor(11, ts, cond.pos + 1))

\* self.try_parse() at Factor<n>; Expr is Factor11
ParseFactor(n, ts, p) ==
    CASE n = 1 ->
            \* expression.rs 132-157
            IF Matches(ts, p, "(") THEN CloseParen(ts, ParseFactor(11, ts, p + 1))
            ELSE IF ParseName(ts, p).st = "ok"
            THEN IF Matches(ts, p + 1, "(")
                 THEN CallArgs(ts, p + 2, Raw(ts, p), <<>>)
                 ELSE EOk(p + 1, <<"ident", Raw(ts, p)>>)
            ELSE LiteralLeaf(ts, p, ParseLiteral(ts, p))
      [] n = 2 ->
            \* expression.rs 177-187
            IF Matches(ts, p, "+") THEN Unary("pos", ParseFactor(2, ts, p + 1))
            ELSE IF Matches(ts, p, "-") THEN Unary("minus", ParseFactor(2, ts, p + 1))
            ELSE IF Matches(ts, p, "~") THEN Unary("not", ParseFactor(2, ts, p + 1))
            ELSE ParseFactor(1, ts, p)
      [] n = 3 -> OnceTier(3, 3, ts, ParseFactor(2, ts, p))
      [] n \in 4..8 -> FoldTier(n, ts, ParseFactor(n - 1, ts, p))
      [] n \in 9..10 -> OnceTier(n, n - 1, ts, ParseFactor(n - 1, ts, p))
      [] n = 11 -> Ternary(ts, ParseFactor(10, ts, p))

\* expression.rs 456-461
ParseExpr(ts, p) == ParseFactor(11, ts, p)

\* expression.rs 478-480: self.expect("}")? after the expression
CloseBrace(ts, e) == IF e.st # "ok" THEN Plain(e) ELSE Expect(ts, e.pos, "}")

\* ast/expression.rs 473-488
ParseNumber(ts, p) ==
    IF Matches(ts, p, "{") THEN CloseBrace(ts, ParseExpr(ts, p + 1))
    ELSE ParseLiteral(ts, p)

\* #[derive(TryParse)] on enum AcType (ast/mod.rs 247-260, lib.rs 112-143)
ParseAcType(ts, p) ==
    LET t == Token(ts, p) IN
    IF t.st # "ok" THEN t
    ELSE IF \E v \in {"LIN", "OCT", "DEC"} : UpperStr(Spell(Raw(ts, p))) = Spell(v)
    THEN Ok(p + 1)
    ELSE Fail(p, "Unknown varient: '{}', valid options are {:?}", <<Raw(ts, p)>>)

\* The field types of the records.
TName == [k |-> "Name"]
TNode == [k |-> "Node"]
TExplicitNode == [k |-> "ExplicitNode"]
TNumber == [k |-> "Number"]
TAcType == [k |-> "AcType"]
TOption(t) == [k |-> "Option", of |-> t]
TTuple(s) == [k |-> "Tuple", of |-> s]
TVec(t) == [k |-> "Vec", of |-> t]
\* a #[derive(Params)] struct: key |-> type of the value after "="
TParams(keys) == [k |-> "Params", of |-> keys]

\* TryParse<Option<T>> without `self.restore(snapshot)`
OptionNoRestore(snapshot, r) == IF r.st = "err" THEN Ok(r.pos) ELSE r

\* parse.rs 203-217: r is what the attempt at T returned; an error is swallowed
\* and the cursor restored
OptionResult(snapshot, r) == IF r.st = "err" THEN Ok(snapshot) ELSE r

RECURSIVE ParseTy(_, _, _), ParseTuple(_, _, _, _), ParseParams(_, _, _)
RECURSIVE ParseVec(_, _, _)

\* TryParse<Vec<T>> without the `self.restore(snapshot)` after the loop
VecNextNoRestore(ty, ts, snapshot, r) ==
    CASE r.st = "ok" -> ParseVec(ty, ts, r.pos)
      [] r.st = "err" -> Ok(r.pos)
      [] OTHER -> r

\* parse.rs 223-231: one round of `while let Ok(value) = self.try_parse()`, r
\* being what the attempt at T returned with the cursor at `snapshot`
VecNext(ty, ts, snapshot, r) ==
    CASE r.st = "ok" -> ParseVec(ty, ts, r.pos)
      [] r.st = "err" -> Ok(snapshot)
      [] OTHER -> r

\* self.try_parse() at type ty
ParseTy(ty, ts, p) ==
    CASE ty.k = "Name" -> ParseName(ts, p)
      [] ty.k = "Node" -> ParseNode(ts, p)
      [] ty.k = "ExplicitNode" -> ParseExplicitNode(ts, p)
      [] ty.k = "Number" -> ParseNumber(ts, p)
      [] ty.k = "AcType" -> ParseAcType(ts, p)
      [] ty.k = "Option" -> OptionResult(p, ParseTy(ty.of, ts, p))
      [] ty.k = "Vec" -> ParseVec(ty.of, ts, p)
      [] ty.k = "Tuple" -> ParseTuple(ty.of, 1, ts, p)
      [] ty.k = "Params" -> ParseParams(ty.of, ts, p)

\* parse.rs 219-233
ParseVec(ty, ts, p) == VecNext(ty, ts, p, ParseTy(ty, ts, p))

\* parse.rs 235-269: the components in order, each with `?`
ParseTuple(tys, i, ts, p) ==
    IF i > Len(tys) THEN Ok(p)
    ELSE LET r == ParseTy(tys[i], ts, p) IN
         IF r.st # "ok" THEN r ELSE ParseTuple(tys, i + 1, ts, r.pos)

\* lib.rs 236-244: while !is_eof { match token upper { KEY => consume;
\* expect("=")?; try_parse()? ; _ => break } }.  All modelled keys are optional.
ParseParams(keys, ts, p) ==
    IF IsEof(ts, p) THEN Ok(p)
    ELSE LET hit == {key \in DOMAIN keys : UpperStr(Spell(Raw(ts, p))) = Spell(key)} IN
         IF hit = {} THEN Ok(p)
         ELSE LET key == CHOOSE key \in hit : TRUE
                  e == Expect(ts, p + 1, "=")
              IN IF e.st # "ok" THEN e
                 ELSE LET v == ParseTy(keys[key], ts, e.pos) IN
                      IF v.st # "ok" THEN v ELSE ParseParams(keys, ts, v.pos)

----------------------------------------------------------------------------
(***************************************************************************)
(* Records: #[grammar(..)] shapes, #[derive(TryParse)],                    *)
(* #[derive(PartialParse)] and the Component / Command dispatch            *)
(***************************************************************************)
Lit(l) == [e |-> "lit", lit |-> l]
Field(n, ty) == [e |-> "path", name |-> n, ty |-> ty]

\* ast/component.rs 303-318
RComponent ==
    <<Field("name", TName), Field("node1", TNode), Field("node2", TNode),
      Field("model", TOption(TName)), Field("value", TNumber),
      Field("params", TParams([key \in {"TC"} |->
                                  TTuple(<<TNumber, TOption(TNumber)>>)]))>>

\* ast/component.rs 284-294
QComponent ==
    <<Field("name", TName), Field("collector", TNode), Field("base", TNode),
      Field("emitter", TNode), Field("substrate", TOption(TExplicitNode)),
      Field("model", TName), Field("area", TOption(TNumber))>>

\* ast/component.rs 350-383
TComponent ==
    <<Field("name", TName), Field("anode1", TNode), Field("anode2", TNode),
      Field("bnode1", TNode), Field("bnode2", TNode),
      Field("model", TOption(TTuple(<<TName, TOption(TNumber)>>))),
      Field("params",
            TParams([key \in {"Z0", "TD", "F", "NL", "IC", "LEN", "R", "L", "G", "C"} |->
                        IF key = "IC"
                        THEN TTuple(<<TNumber, TNumber, TNumber, TNumber>>)
                        ELSE TNumber]))>>

\* ast/command.rs 23-34
AcCommand ==
    <<Lit(".AC"), Field("ty", TAcType), Field("np", TNumber),
      Field("fstart", TNumber), Field("fend", TNumber)>>

\* lib.rs 37-108: the grammar elements in order, each with `?` (TryParseRest:
\* r is what element i returned).
RECURSIVE TryParseStruct(_, _, _, _), TryParseRest(_, _, _, _)
TryParseStruct(g, i, ts, p) ==
    IF i > Len(g) THEN Ok(p)
    ELSE TryParseRest(g, i, ts,
                      IF g[i].e = "lit" THEN Expect(ts, p, g[i].lit)
                      ELSE ParseTy(g[i].ty, ts, p))
TryParseRest(g, i, ts, r) ==
    IF r.st # "ok" THEN r ELSE TryParseStruct(g, i + 1, ts, r.pos)

\* lib.rs 349-359: match self.try_parse() { Ok(k) => Some(k), Err(e) => .. },
\* r being what try_parse returned.  `reason` is the error `e` that was turned
\* into None, if any.
FieldOutcome(r) ==
    CASE r.st = "ok" ->
            [st |-> "ok", pos |-> r.pos, reason |-> NoReason, some |-> TRUE,
             is_eof |-> FALSE, tried |-> TRUE]
      [] r.st = "err" /\ ReasonContainsEOF(r.reason) ->
            [st |-> "ok", pos |-> r.pos, reason |-> r.reason, some |-> FALSE,
             is_eof |-> TRUE, tried |-> TRUE]
      [] OTHER ->
            [st |-> r.st, pos |-> r.pos, reason |-> r.reason, some |-> FALSE,
             is_eof |-> FALSE, tried |-> TRUE]

\* The `match self.try_parse()` of the field step as it was before the `is_eof`
\* guard (the commented-out code of lib.rs 334-344): every field is tried,
\* whatever came before.
PathArmNoGuard(ty, ts, p, is_eof) ==
    [FieldOutcome(ParseTy(ty, ts, p)) EXCEPT !.is_eof = @ \/ is_eof]

\* lib.rs 345-361: one #[grammar(field)] step of the partial parse
PathArm(ty, ts, p, is_eof) ==
    IF ~is_eof
    THEN FieldOutcome(ParseTy(ty, ts, p))
    ELSE [st |-> "ok", pos |-> p, reason |-> NoReason, some |-> FALSE,
          is_eof |-> TRUE, tried |-> FALSE]

\* lib.rs 421, 454: the locals of the generated body, with the outcome
\* so far.  `stop` is the error that ended the walk with None.
Locals(p) ==
    [st |-> "ok", reason |-> NoReason, pos |-> p, is_eof |-> FALSE,
     position |-> 0, fields |-> <<>>, stop |-> NoReason]

\* lib.rs 401-405: self.expect(lit)?, r being what expect returned
LitStep(c, r) == [c EXCEPT !.st = r.st, !.reason = r.reason, !.pos = r.pos]

\* lib.rs 345-361: let #ident = ..., a being what the field step returned
FieldStep(c, fname, a) ==
    IF a.st # "ok"
    THEN [c EXCEPT !.st = a.st, !.reason = a.reason, !.pos = a.pos]
    ELSE [c EXCEPT !.pos = a.pos,
                   !.is_eof = a.is_eof,
                   !.position = @ + (IF a.tried THEN 1 ELSE 0),
                   !.fields = Append(@, [name |-> fname, some |-> a.some]),
                   !.stop = IF a.reason # NoReason THEN a.reason ELSE @]

\* lib.rs 320-430: the generated body, element by element; it returns
\* Ok(<Record>Partial { fields.., position }) or the first hard error.
RECURSIVE PartialFrom(_, _, _, _), PartialRest(_, _, _, _)
PartialFrom(g, i, ts, c) ==
    IF i > Len(g) THEN c
    ELSE PartialRest(g, i, ts,
                     IF g[i].e = "lit"
                     THEN LitStep(c, Expect(ts, c.pos, g[i].lit))
                     ELSE FieldStep(c, g[i].name,
                                    PathArm(g[i].ty, ts, c.pos, c.is_eof)))
PartialRest(g, i, ts, c) ==
    IF c.st # "ok" THEN c ELSE PartialFrom(g, i + 1, ts, c)

\* lib.rs 453-458: try_partial
TryPartialStruct(g, ts, p) == PartialFrom(g, 1, ts, Locals(p))

\* lib.rs 460-466: info, the same walk, returned with the (empty) element list
InfoStruct(g, ts, p) ==
    TryPartialStruct(g, ts, p) @@ [elements |-> <<>>]

\* ast/component.rs 433-435: the pins of an X line
RECURSIVE XPins(_, _)
XPins(ts, p) ==
    IF ~NextEof(ts, p) /\ ~NextMatches(ts, p, "PARAM") /\ ~NextMatches(ts, p, "TEXT")
    THEN LET r == ParseNode(ts, p) IN
         IF r.st # "ok" THEN r ELSE XPins(ts, r.pos)
    ELSE Ok(p)

\* ast/component.rs 423-461.  The PARAM: and TEXT: sections are not part of
\* this model: the vocabulary has neither keyword.
ParseXComponent(ts, p) ==
    LET n == ParseName(ts, p) IN
    IF n.st # "ok" THEN n
    ELSE LET pins == XPins(ts, n.pos) IN
         IF pins.st # "ok" THEN pins ELSE ParseName(ts, pins.pos)

NotAComponent(ts, p) ==
    Fail(p, "Expect `{}' to be a Component name", <<Raw(ts, p)>>)

\* ast/component.rs 554-587.  Of the twenty letters the model has the records of
\* Q, R, T and X; no token of the vocabulary starts with another of them.
TryParseComponent(ts, p) ==
    LET t == Token(ts, p) IN
    IF t.st # "ok" THEN t
    ELSE LET u == UpperStr(Spell(Raw(ts, p))) IN
         CASE StartsWith(u, <<"Q">>) -> TryParseStruct(QComponent, 1, ts, p)
           [] StartsWith(u, <<"R">>) -> TryParseStruct(RComponent, 1, ts, p)
           [] StartsWith(u, <<"T">>) -> TryParseStruct(TComponent, 1, ts, p)
           [] StartsWith(u, <<"X">>) -> ParseXComponent(ts, p)
           [] OTHER -> NotAComponent(ts, p)

\* The error of the dispatchers, in the shape of a partial outcome.
PartialFail(r) == LitStep(Locals(r.pos), r)

\* ast/component.rs 615-647: PartialParse<ComponentPartial>::try_partial; the
\* X arm is commented out in the source.
TryPartialComponent(ts, p) ==
    LET t == Token(ts, p) IN
    IF t.st # "ok" THEN PartialFail(t)
    ELSE LET u == UpperStr(Spell(Raw(ts, p))) IN
         CASE StartsWith(u, <<"Q">>) -> TryPartialStruct(QComponent, ts, p)
           [] StartsWith(u, <<"R">>) -> TryPartialStruct(RComponent, ts, p)
           [] StartsWith(u, <<"T">>) -> TryPartialStruct(TComponent, ts, p)
           [] OTHER -> PartialFail(NotAComponent(ts, p))

\* ast/component.rs 649-733: PartialParse<ComponentPartial>::info
InfoComponent(ts, p) ==
    LET t == Token(ts, p) IN
    IF t.st # "ok" THEN PartialFail(t)
    ELSE LET u == UpperStr(Spell(Raw(ts, p))) IN
         CASE StartsWith(u, <<"Q">>) -> InfoStruct(QComponent, ts, p)
           [] StartsWith(u, <<"R">>) -> InfoStruct(RComponent, ts, p)
           [] StartsWith(u, <<"T">>) -> InfoStruct(TComponent, ts, p)
           [] OTHER -> PartialFail(NotAComponent(ts, p))

\* ast/command.rs 678-735.  Of the commands the model has .AC; the vocabulary
\* has no other command name.
\* command.rs 546-550
TempCommand == <<Lit(".TEMP"), Field("temps", TVec(TNumber))>>

TryParseCommand(ts, p) ==
    LET t == Token(ts, p) IN
    IF t.st # "ok" THEN t
    ELSE LET u == UpperStr(Spell(Raw(ts, p))) IN
         CASE u = Spell(".AC") -> TryParseStruct(AcCommand, 1, ts, p)
           [] u = Spell(".TEMP") -> TryParseStruct(TempCommand, 1, ts, p)
           \* command.rs 690, 696: ".FUNC" => todo!(), ".MC" => todo!()
           [] u = Spell(".FUNC") \/ u = Spell(".MC") -> Panic(p)
           [] StartsWith(u, <<".">>) -> Fail(p, "Unknown command `{}'", <<Raw(ts, p)>>)
           [] OTHER -> Fail(p, "Expect `{}' to be a Command name", <<Raw(ts, p)>>)

IsCommandLine(ts) == StartsWith(Spell(ts[1]), <<".">>)

\* parse.rs 353: parser.expect_eof()?, r being what the record parse returned
ThenExpectEof(ts, r) == IF r.st # "ok" THEN r ELSE ExpectEof(ts, r.pos)

\* parse.rs 338-353: one (non-empty) line of the file parser
FullLine(ts) ==
    ThenExpectEof(ts, IF IsCommandLine(ts) THEN TryParseCommand(ts, 0)
                      ELSE TryParseComponent(ts, 0))

----------------------------------------------------------------------------
(***************************************************************************)
(* A line typed token by token; after every token the completion side      *)
(* calls the partial-parse entry points on what is there.                  *)
(***************************************************************************)
SampleLines ==
    { <<"R1", "1", "1", "1k", "tc", "=", "1", "1">>,
      <<"R1", "[", "1", "]", "1", "-", "1k">>,
      <<"Q1", "1", "1", "1", "[", "1", "]", "NPN", "1">>,
      <<"tc", "1", "1", "1", "1", "NPN", "1">>,
      <<"X1", "1", "NPN">>,
      <<".ac", "OCT", "1", "1k", "1k">>,
      <<".temp", "1", "-", "1k", "-", "NPN">>,
      <<".mc", "1">> }

AsmIdle ==
    /\ asmPc = "idle" /\ lines = <<>> /\ instructions = <<>> /\ idx = 1
    /\ stack = <<>> /\ subckts = <<>> /\ name = NoName /\ result = NoResult

PartialInit ==
    /\ toks = <<>> /\ free = 0 /\ log = <<>> /\ full = NoResult
    /\ code = <<>> /\ nfree = 0 /\ out = NoResult
    /\ IncIdle
    /\ LspIdle
    /\ AsmIdle

\* The entry points run on the line as it stands after the token.
Keystroke(v) ==
    LET ts == Append(toks, v) IN
    /\ toks' = ts
    /\ log' = Append(log, [comp |-> TryPartialComponent(ts, 0),
                           info |-> InfoComponent(ts, 0),
                           ac |-> TryPartialStruct(AcCommand, ts, 0)])
    /\ full' = FullLine(ts)
    /\ UNCHANGED <<asmVars, lexVars, incVars, lspVars>>

\* the next token of a sample line
TypeSample ==
    \E s \in SampleLines :
        /\ free = 0
        /\ Len(toks) < Len(s)
        /\ SubSeq(s, 1, Len(toks)) = toks
        /\ Keystroke(s[Len(toks) + 1])
        /\ UNCHANGED free

\* any token of the vocabulary
TypeToken ==
    \E v \in Vocab :
        /\ free < MaxFree
        /\ Keystroke(v)
        /\ free' = free + 1

PartialNext == TypeSample \/ TypeToken

SpecPartial == PartialInit /\ [][PartialNext]_vars

----------------------------------------------------------------------------
(***************************************************************************)
(* Properties of the partial parse                                         *)
(***************************************************************************)

\* What the entry points returned on the first k tokens of the line.
Outcomes(k) == {log[k].comp, log[k].info, log[k].ac}

\* A field is Some only if every field before it is Some.
Monotone(fields) ==
    \A i, j \in 1..Len(fields) : (i < j /\ fields[j].some) => fields[i].some

\* C3: whenever a partial parse returns a partial record, a field of it is Some
\* only if every field before it in grammar order is Some.
C3_PartialMonotone ==
    \A k \in 1..Len(log) : \A o \in Outcomes(k) :
        o.st = "ok" => Monotone(o.fields)

\* A record cut in the middle: leading fields Some (an absent optional field
\* among them), the field that ran out of tokens and all later ones None.
C3_Witness ==
    /\ Len(toks) = 3
    /\ log[3].comp.st = "ok"
    /\ Len(log[3].comp.fields) = 6
    /\ \A i \in 1..4 : log[3].comp.fields[i].some
    /\ \A i \in 5..6 : ~log[3].comp.fields[i].some
    /\ log[3].comp.position = 5

\* The partial entry point of the record the line is of.
OutcomeFor(k) == IF IsCommandLine(toks) THEN log[k].ac ELSE log[k].comp

\* C4: when the line parses in full as a component or command, the partial
\* parse of every non-empty proper prefix of it returned Ok.
C4_PrefixPartialOk ==
    (toks # <<>> /\ full.st = "ok")
        => \A k \in 1..(Len(toks) - 1) : OutcomeFor(k).st = "ok"

\* C5: a field is reported None (and the parse Ok) only for a failure caused by
\* the end of the input; the error ParseError::unexpected_eof is the one that
\* the token stream raises there.
C5_NonEofIsHardError ==
    \A k \in 1..Len(log) : \A o \in Outcomes(k) :
        (o.st = "ok" /\ o.stop # NoReason) => o.stop.fmt = "Unexpected EOF"

\* C6: on every line typed so far the partial-parse entry points returned Ok
\* or Err, with the cursor inside the line.
C6_PartialNeverPanics ==
    \A k \in 1..Len(log) : \A o \in Outcomes(k) :
        /\ o.st \in {"ok", "err"}
        /\ o.pos \in 0..k

\* Both outcomes happen on truncations of one line: Ok with fields cut off by
\* the end of the input, and a hard error.
C6_Witness ==
    /\ Len(log) >= 4
    /\ \E k \in 1..Len(log) :
          /\ log[k].comp.st = "ok"
          /\ log[k].comp.stop.fmt = "Unexpected EOF"
          /\ log[k].info.st = "ok"
          /\ log[k].ac.st = "err"
    /\ \E k \in 1..Len(log) : log[k].comp.st = "err" /\ log[k].info.st = "err"

----------------------------------------------------------------------------
(***************************************************************************)
(* The tokenizer: SpiceLexer::tokenize and the continuation merge.         *)
(* A text is a sequence of characters; a character occupies Utf8Len bytes  *)
(* and the scanner's indices (start, j, the token spans) are byte indices, *)
(* as in the source.  Slicing the line at a byte index inside a character  *)
(* panics.                                                                 *)
(***************************************************************************)
WideSpace == "U+3000"       \* IDEOGRAPHIC SPACE: White_Space, 3 bytes
WideLetter == "U+4E2D"      \* a CJK letter, 3 bytes
Utf8Len(c) == IF c \in {WideSpace, WideLetter} THEN 3 ELSE 1

\* char::is_whitespace (a line never holds "\n")
IsWhitespaceChar(c) == c \in {" ", "\t", WideSpace}

\* lexer.rs 56
SPECIAL_CHARS ==
    {")", "(", "]", "[", "}", "{", "=", ":", "*", "<", ">", "!", "~", "&", "|",
     "+", "-", "^", "/"}

\* lexer.rs 152
TwoCharOps == {<<"!", "=">>, <<"=", "=">>, <<"<", "=">>, <<">", "=">>, <<"*", "*">>}

RECURSIVE ByteLen(_)
ByteLen(cs) == IF cs = <<>> THEN 0 ELSE Utf8Len(Head(cs)) + ByteLen(Tail(cs))

\* char_indices(): Offs(line)[k] is the byte index of the k-th character, and
\* Offs(line)[Len + 1] is line.len()
Offs(line) == [k \in 1..(Len(line) + 1) |-> ByteLen(SubSeq(line, 1, k - 1))]

IsCharBoundary(offs, b) == \E k \in DOMAIN offs : offs[k] = b
CharAt(offs, b) == CHOOSE k \in DOMAIN offs : offs[k] = b

\* &line[st..ed] for a range that does not panic
Slice(line, offs, st, ed) == SubSeq(line, CharAt(offs, st), CharAt(offs, ed) - 1)
SliceOk(offs, st, ed) ==
    st <= ed /\ IsCharBoundary(offs, st) /\ IsCharBoundary(offs, ed)

\* is_inside_number without the is_start_with_dot_or_digit conjunct
IsInsideNumberNoStart(line, offs, start, k) ==
    /\ line[k - 1] \in {"e", "E"}
    /\ line[k] \in {"+", "-"}
    /\ k + 1 <= Len(line) /\ IsAsciiDigit(line[k + 1])

\* lexer.rs 120-138: the k-th character, at byte j > start, belongs to the
\* number that the run line[start..j] begins
IsInsideNumber(line, offs, start, k) ==
    /\ line[CharAt(offs, start)] \in {"."} \cup AsciiDigits
    /\ line[k - 1] \in {"e", "E"}
    /\ line[k] \in {"+", "-"}
    /\ k + 1 <= Len(line) /\ IsAsciiDigit(line[k + 1])

\* lexer.rs 83-87: the locals of the scan of one line
ScanInit ==
    [st |-> "ok", start |-> 0, skip |-> FALSE, is_quote |-> FALSE, tokens |-> <<>>]

\* lexer.rs 149-168: the special character or whitespace itself
AfterBreak(line, offs, k, s) ==
    LET c == line[k]
        j == offs[k]
    IN IF c \in SPECIAL_CHARS
       THEN IF k < Len(line) /\ <<c, line[k + 1]>> \in TwoCharOps
            THEN [s EXCEPT !.tokens = Append(@, <<j, j + 2>>),
                           !.start = j + 2, !.skip = TRUE]
            ELSE [s EXCEPT !.tokens = Append(@, <<j, j + 1>>), !.start = j + 1]
       ELSE IF IsWhitespaceChar(c) \/ c = ","
       THEN [s EXCEPT !.start = j + 1]
       ELSE s

\* lexer.rs 89-168: one round of the loop over the characters
ScanChar(line, offs, k, s) ==
    LET c == line[k]
        j == offs[k]
    IN CASE s.st = "panic" -> s
         [] s.skip -> [s EXCEPT !.skip = FALSE]
         [] c = "\"" /\ s.is_quote ->
               [s EXCEPT !.tokens = Append(@, <<s.start - 1, j + 1>>),
                         !.is_quote = FALSE, !.start = j + 1]
         [] c = "\"" -> [s EXCEPT !.is_quote = TRUE, !.start = j + 1]
         [] s.is_quote -> s
         [] (IsWhitespaceChar(c) \/ c = "," \/ c \in SPECIAL_CHARS) /\ s.start < j ->
               IF ~IsCharBoundary(offs, s.start) THEN [s EXCEPT !.st = "panic"]
               ELSE IF IsInsideNumber(line, offs, s.start, k) THEN s
               ELSE AfterBreak(line, offs, k,
                               [s EXCEPT !.tokens = Append(@, <<s.start, j>>)])
         [] OTHER -> AfterBreak(line, offs, k, s)

\* the rounds for characters k..n
RECURSIVE ScanTo(_, _, _, _, _)
ScanTo(line, offs, k, n, s) ==
    IF k > n THEN s ELSE ScanTo(line, offs, k + 1, n, ScanChar(line, offs, k, s))

\* lexer.rs 88-169: the loop over line.char_indices()
Scan(line, offs) == ScanTo(line, offs, 1, Len(line), ScanInit)

\* lexer.rs 170-172: the run that reaches the end of the line
Finish(line, offs, s) ==
    IF s.st = "ok" /\ s.start < offs[Len(line) + 1]
    THEN [s EXCEPT !.tokens = Append(@, <<s.start, offs[Len(line) + 1]>>)]
    ELSE s

\* lexer.rs 174-177: Atom::new(&line[st..ed], (st, ed), loc) for every span
Atoms(line, offs, loc, s) ==
    IF s.st = "ok" /\ \A i \in 1..Len(s.tokens) : SliceOk(offs, s.tokens[i][1], s.tokens[i][2])
    THEN [st |-> "ok",
          atoms |-> [i \in 1..Len(s.tokens) |->
                        [raw |-> Slice(line, offs, s.tokens[i][1], s.tokens[i][2]),
                         column |-> s.tokens[i],
                         line |-> loc]]]
    ELSE [st |-> "panic", atoms |-> <<>>]

\* lexer.rs 77: line.trim().starts_with('*')
RECURSIVE IsCommentLine(_)
IsCommentLine(line) ==
    /\ line # <<>>
    /\ IF IsWhitespaceChar(Head(line)) THEN IsCommentLine(Tail(line))
       ELSE Head(line) = "*"

\* lexer.rs 84: line.split(';').next().unwrap()
RECURSIVE BeforeSemicolon(_)
BeforeSemicolon(line) ==
    IF line = <<>> \/ Head(line) = ";" THEN <<>>
    ELSE <<Head(line)>> \o BeforeSemicolon(Tail(line))

ScanLine(line, offs, loc) ==
    Atoms(line, offs, loc, Finish(line, offs, Scan(line, offs)))

\* TokenizeLine without the test for a comment line
TokenizeLineKeepComment(line, loc) ==
    ScanLine(BeforeSemicolon(line), Offs(BeforeSemicolon(line)), loc)

\* lexer.rs 73-178: the closure mapped over the lines
TokenizeLine(line, loc) ==
    IF IsCommentLine(line) THEN [st |-> "ok", atoms |-> <<>>]
    ELSE ScanLine(BeforeSemicolon(line), Offs(BeforeSemicolon(line)), loc)

\* str::lines(): the pieces between "\n".  A last piece that is empty is kept
\* here; it yields no tokens and is filtered out like every empty line.
RECURSIVE SplitLines(_, _)
SplitLines(cs, cur) ==
    IF cs = <<>> THEN <<cur>>
    ELSE IF Head(cs) = "\n" THEN <<cur>> \o SplitLines(Tail(cs), <<>>)
    ELSE SplitLines(Tail(cs), Append(cur, Head(cs)))

\* MergeFrom with `last.extend(next)` in place of `last.extend(next.skip(1))`
RECURSIVE MergeFromKeepPlus(_, _, _)
MergeFromKeepPlus(last, rest, acc) ==
    IF rest = <<>> THEN Append(acc, last)
    ELSE IF Head(rest)[1].raw = <<"+">>
    THEN MergeFromKeepPlus(last \o Head(rest), Tail(rest), acc)
    ELSE MergeFromKeepPlus(Head(rest), Tail(rest), Append(acc, last))

\* lexer.rs 39-53: MergeLinesIter::next, called until the iterator is exhausted;
\* `last` is the pending line, `rest` what the inner iterator still holds.
RECURSIVE MergeFrom(_, _, _)
MergeFrom(last, rest, acc) ==
    IF rest = <<>> THEN Append(acc, last)
    ELSE IF Head(rest)[1].raw = <<"+">>
    THEN MergeFrom(last \o Tail(Head(rest)), Tail(rest), acc)
    ELSE MergeFrom(Head(rest), Tail(rest), Append(acc, last))

\* lexer.rs 27-30 and collect()
MergeLines(ls) == IF ls = <<>> THEN <<>> ELSE MergeFrom(Head(ls), Tail(ls), <<>>)

NonEmpty(x) == x # <<>>

\* lexer.rs 179-181: filter, merge_lines, collect; a panic in any line's closure
\* is the panic of the call
Collect(per) ==
    IF \E i \in 1..Len(per) : per[i].st = "panic"
    THEN [st |-> "panic", lines |-> <<>>]
    ELSE [st |-> "ok",
          lines |-> MergeLines(SelectSeq([i \in 1..Len(per) |-> per[i].atoms], NonEmpty))]

PerLine(ls) == [i \in 1..Len(ls) |-> TokenizeLine(ls[i], i - 1)]

\* lexer.rs 71-182
Tokenize(cs) == Collect(PerLine(SplitLines(cs, <<>>)))

----------------------------------------------------------------------------
(***************************************************************************)
(* A text typed character by character: a prefix of a sample text, then up *)
(* to MaxChars characters of FreeChars.  The tokenizer runs on the text    *)
(* after every character.                                                  *)
(***************************************************************************)
SampleTexts ==
    { <<"1", ".", "3", "e", "-", "4", " ", "a", "-", "4", " ", "e", "-", "4">>,
      <<"R", "1", " ", "1", "\n", "+", " ", "1", "k", "\n", "+", "1">>,
      <<"a", ";", "c", "\n", "*", "c", "\n", "+", " ", "1">>,
      <<"a", " ", "\"", "b", "\n", "+", " ", "c", "\"">>,
      <<WideLetter, "=", "\"", "x", " ", "y", "\"", "=", "=", "1">> }

FreeChars == {"1", "e", "+", "-", " ", "\n", "\"", WideSpace}

LexInit ==
    /\ code = <<>> /\ nfree = 0 /\ out = NoResult
    /\ IncIdle
    /\ LspIdle
    /\ toks = <<>> /\ free = 0 /\ log = <<>> /\ full = NoResult
    /\ AsmIdle

LexKeystroke(c) ==
    /\ code' = Append(code, c)
    /\ out' = Tokenize(Append(code, c))
    /\ UNCHANGED <<asmVars, ppVars, incVars, lspVars>>

\* the next character of a sample text
LexTypeSample ==
    \E s \in SampleTexts :
        /\ nfree = 0
        /\ Len(code) < Len(s)
        /\ SubSeq(s, 1, Len(code)) = code
        /\ LexKeystroke(s[Len(code) + 1])
        /\ UNCHANGED nfree

\* any character of FreeChars
LexTypeChar ==
    \E c \in FreeChars :
        /\ nfree < MaxChars
        /\ LexKeystroke(c)
        /\ nfree' = nfree + 1

LexNext == LexTypeSample \/ LexTypeChar

SpecLex == LexInit /\ [][LexNext]_vars

Raws(atoms) == [k \in 1..Len(atoms) |-> atoms[k].raw]

\* the physical lines of the text, what each tokenizes to, and the text of each
\* that is not comment
CodeLines == SplitLines(code, <<>>)
CodePer == PerLine(CodeLines)
Content(line) == IF IsCommentLine(line) THEN <<>> ELSE BeforeSemicolon(line)

\* ---- continuation lines
\* line i of the tokenized lines `per` has `+` as its first token and a line
\* with tokens before it
IsContinuation(per, i) ==
    /\ per[i].atoms # <<>>
    /\ per[i].atoms[1].raw = <<"+">>
    /\ \E h \in 1..(i - 1) : per[h].atoms # <<>>

\* the lines that start a logical line, the n-th of them, and the last line
\* with tokens before the next one
Heads(per) == {i \in 1..Len(per) : per[i].atoms # <<>> /\ ~IsContinuation(per, i)}
HeadAt(hs, n) == CHOOSE h \in hs : Cardinality({x \in hs : x < h}) = n - 1
GroupEnd(per, hs, h) ==
    CHOOSE e \in h..Len(per) :
        /\ \A x \in hs : x <= h \/ x > e
        /\ \A y \in (e + 1)..Len(per) : per[y].atoms # <<>> => \E x \in hs : h < x /\ x <= y
        /\ per[e].atoms # <<>>

\* the tokens of lines i..e in order, without the `+` of each continuation
RECURSIVE MergedAtoms(_, _, _)
MergedAtoms(per, i, e) ==
    IF i > e THEN <<>>
    ELSE (IF IsContinuation(per, i) THEN Tail(per[i].atoms) ELSE per[i].atoms)
         \o MergedAtoms(per, i + 1, e)

\* the text of a line with the `+` of a continuation blanked
Blank(text, b) == [text EXCEPT ![CharAt(Offs(text), b)] = " "]
Blanked(per, ls, i) ==
    IF IsContinuation(per, i) THEN Blank(Content(ls[i]), per[i].atoms[1].column[1])
    ELSE Content(ls[i])

\* lines i..e written on one line: a blank for every line break
RECURSIVE JoinedText(_, _, _, _)
JoinedText(per, ls, i, e) ==
    IF i > e THEN <<>>
    ELSE IF i = e THEN Blanked(per, ls, i)
    ELSE Blanked(per, ls, i) \o <<" ">> \o JoinedText(per, ls, i + 1, e)

RECURSIVE CountQuotes(_)
CountQuotes(cs) ==
    IF cs = <<>> THEN 0
    ELSE (IF Head(cs) = "\"" THEN 1 ELSE 0) + CountQuotes(Tail(cs))

QuotesBalanced(line) == CountQuotes(Content(line)) % 2 = 0

SameTokens(atoms, one) ==
    /\ one.st = "ok"
    /\ Len(one.lines) = 1
    /\ Raws(atoms) = Raws(one.lines[1])

SameAsOneLine(per, ls, hs, h, atoms) ==
    SameTokens(atoms, Tokenize(JoinedText(per, ls, h, GroupEnd(per, hs, h))))

MergedInOrder(per, hs) ==
    /\ Len(out.lines) = Cardinality(hs)
    /\ \A n \in 1..Len(out.lines) :
          out.lines[n] = MergedAtoms(per, HeadAt(hs, n), GroupEnd(per, hs, HeadAt(hs, n)))

AllSameAsOneLine(per, ls, hs) ==
    \A n \in 1..Len(out.lines) : SameAsOneLine(per, ls, hs, HeadAt(hs, n), out.lines[n])

MergeEqualsOneLine(per, ls, hs) ==
    MergedInOrder(per, hs) /\ AllSameAsOneLine(per, ls, hs)

ContinuationMerge(per, ls, hs) ==
    /\ MergedInOrder(per, hs)
    /\ (\A i \in 1..Len(ls) : QuotesBalanced(ls[i])) => AllSameAsOneLine(per, ls, hs)

C8_NoLeadingPlus ==
    (out # NoResult /\ out.st = "ok") =>
        \A n \in 1..Len(out.lines) : out.lines[n][1].raw # <<"+">>

\* C9: for every text, tokenize returns a list of token lines; it does not
\* panic.
C9_TokenizeNeverFails ==
    out # NoResult => out.st = "ok"

\* ---- signs
\* the k-th character of the line is outside quotes
OutsideQuotes(line, k) == CountQuotes(SubSeq(line, 1, k - 1)) % 2 = 0

\* the spans of the line's tokens
Spans(r) == {r.atoms[n].column : n \in 1..Len(r.atoms)}

\* the three conditions on the sign at character k, for a run that began at
\* byte `start`
SignBelongsToNumber(line, offs, start, k) ==
    /\ start < offs[k]
    /\ line[CharAt(offs, start)] \in {"."} \cup AsciiDigits
    /\ line[k - 1] \in {"e", "E"}
    /\ k < Len(line) /\ IsAsciiDigit(line[k + 1])

\* The sign at character k (byte j), reached with the run beginning at byte
\* `start`, in a line whose tokens have the spans `spans`: under the three
\* conditions the sign is no token of its own and a token that holds it is the
\* one the run began; otherwise the sign is a token of its own.
SignRule(line, offs, spans, start, k) ==
    IF SignBelongsToNumber(line, offs, start, k)
    THEN /\ <<offs[k], offs[k] + 1>> \notin spans
         /\ \A t \in spans : (t[1] <= offs[k] /\ offs[k] < t[2]) => t[1] = start
    ELSE <<offs[k], offs[k] + 1>> \in spans

SignRuleLine(line, offs, r) ==
    r.st = "ok" =>
        \A k \in 1..Len(line) :
            (line[k] \in {"+", "-"} /\ OutsideQuotes(line, k)) =>
                SignRule(line, offs, Spans(r), ScanTo(line, offs, 1, k - 1, ScanInit).start, k)

SignRuleLines(per, ls) ==
    \A i \in 1..Len(ls) :
        ~IsCommentLine(ls[i]) => SignRuleLine(Content(ls[i]), Offs(Content(ls[i])), per[i])

\* C10: a `+` or `-` outside quotes stays inside the current token only when
\* the run since the last token boundary starts with a digit or `.`, ends in
\* e or E, and the character after the sign is a digit; otherwise the sign is a
\* token of its own.
C10_SignInsideNumber ==
    out # NoResult => SignRuleLines(CodePer, CodeLines)

\* "1.3e-4 a-4 e-4": one token, then three, then three
C10_Witness ==
    /\ out # NoResult /\ out.st = "ok"
    /\ Len(out.lines) = 1
    /\ Raws(out.lines[1]) =
          << <<"1", ".", "3", "e", "-", "4">>, <<"a">>, <<"-">>, <<"4">>,
             <<"e">>, <<"-">>, <<"4">> >>

----------------------------------------------------------------------------
(***************************************************************************)
(* Option<T> and Vec<T> on the line being typed                            *)
(***************************************************************************)
\* The same typing with a short vocabulary after the sample prefix: the tokens
\* that make a node, a number or a failed attempt at one.
ShortVocab == {"1", "-", "[", "]", "NPN"}

TypeShort ==
    \E v \in ShortVocab :
        /\ free < MaxFree
        /\ Keystroke(v)
        /\ free' = free + 1

CursorNext == TypeSample \/ TypeShort

SpecCursor == PartialInit /\ [][CursorNext]_vars

\* the types that stand under Option in the records
OptionTypes ==
    {TName, TNode, TExplicitNode, TNumber,
     TTuple(<<TNumber, TOption(TNumber)>>), TTuple(<<TName, TOption(TNumber)>>)}

\* the types that stand under Vec
VecTypes == {TNumber, TNode}

\* r is what Option<T> returned from cursor p, inner what T alone returns there
OptionFrame(p, inner, r) ==
    /\ r.st = "ok"
    /\ inner.st = "err" => r.pos = p
    /\ inner.st = "ok" => r.pos = inner.pos

\* C11: parsing Option<T> never returns an error; when the attempt at T fails
\* the cursor after the call is the cursor before it, wherever T stopped.
C11_OptionRestores ==
    \A p \in 0..Len(toks) : \A ty \in OptionTypes :
        OptionFrame(p, ParseTy(ty, toks, p), ParseTy(TOption(ty), toks, p))

\* "Q1 1 1 1 [ 1": the substrate node consumes `[` and `1` and fails at the end
\* of the line; Option gives both back and the line fails on `[` as a name
C11_Witness ==
    /\ toks = <<"Q1", "1", "1", "1", "[", "1">>
    /\ ParseTy(TExplicitNode, toks, 4).st = "err"
    /\ ParseTy(TExplicitNode, toks, 4).pos = 6
    /\ ParseTy(TOption(TExplicitNode), toks, 4) = Ok(4)
    /\ full.st = "err" /\ full.pos = 4

\* step[x] is what T returns from cursor x: the cursor at which the run of
\* consecutive successful parses of T that starts at p ends
RECURSIVE RunEnd(_, _)
RunEnd(step, p) == IF step[p].st = "ok" THEN RunEnd(step, step[p].pos) ELSE p

VecFrame(step, p, r) ==
    /\ r.st = "ok"
    /\ r.pos = RunEnd(step, p)
    /\ step[r.pos].st = "err"

VecFrames(ty, ts, step) ==
    \A p \in 0..Len(ts) : VecFrame(step, p, ParseTy(TVec(ty), ts, p))

\* C12: parsing Vec<T> never returns an error; the cursor it leaves is the end
\* of the longest run of consecutive successful parses of T, whatever the
\* failed last attempt consumed.
C12_VecLongestRun ==
    \A ty \in VecTypes :
        VecFrames(ty, toks, [x \in 0..Len(toks) |-> ParseTy(ty, toks, x)])

\* ".temp 1 - 1k - NPN": two numbers, then the attempt at a third consumes `-`
\* and fails on NPN; the `-` is given back and the line fails on it
C12_Witness ==
    /\ toks = <<".temp", "1", "-", "1k", "-", "NPN">>
    /\ ParseTy(TNumber, toks, 4).st = "err"
    /\ ParseTy(TNumber, toks, 4).pos = 5
    /\ ParseTy(TVec(TNumber), toks, 1) = Ok(4)
    /\ full.st = "err" /\ full.pos = 4 /\ full.reason.args = <<"<EOF>", "-">>

----------------------------------------------------------------------------
(***************************************************************************)
(* An expression typed token by token: a prefix of a sample, then up to    *)
(* MaxFree tokens of ExprVocab.  `full` is what TryParse<Expr> returns on  *)
(* the tokens, with the tree.                                              *)
(***************************************************************************)
SampleExprs ==
    { <<"R", "**", "L", "**", "C">>,
      <<"R", "*", "L", "/", "C">>,
      <<"R", "+", "L", "-", "C">>,
      <<"R", "&", "L", "&", "C">>,
      <<"R", "^", "L", "^", "C">>,
      <<"R", "|", "L", "|", "C">>,
      <<"R", "<", "L", ">=", "C">>,
      <<"R", "==", "L", "!=", "C">>,
      <<"R", "*", "L", "-", "C", "/", "G">>,
      <<"(", "R", "+", "1", ")", "*", "~", "C">>,
      <<"R", "?", "1", ":", "G", "(", "1", ")">> }

ExprVocab == {"R", "1", "**", "*", "+", "<", "=="}

ExprKeystroke(v) ==
    /\ toks' = Append(toks, v)
    /\ full' = ParseExpr(Append(toks, v), 0)
    /\ UNCHANGED <<log, asmVars, lexVars, incVars, lspVars>>

ExprTypeSample ==
    \E s \in SampleExprs :
        /\ free = 0
        /\ Len(toks) < Len(s)
        /\ SubSeq(s, 1, Len(toks)) = toks
        /\ ExprKeystroke(s[Len(toks) + 1])
        /\ UNCHANGED free

ExprTypeToken ==
    \E v \in ExprVocab :
        /\ free < MaxFree
        /\ ExprKeystroke(v)
        /\ free' = free + 1

ExprNext == ExprTypeSample \/ ExprTypeToken

SpecExpr == PartialInit /\ [][ExprNext]_vars

\* a token that is an operand by itself, and its tree
IsAtomToken(t) == IsName(Spell(t)) \/ ToNumberOk(Spell(t))
AtomTree(t) == IF IsName(Spell(t)) THEN <<"ident", t>> ELSE <<"lit", t>>

\* the line is a chain x1 op x2 op .. xk of operators of tier n
IsChain(ts, n) ==
    /\ Len(ts) >= 3 /\ Len(ts) % 2 = 1
    /\ \A i \in 1..Len(ts) :
          IF i % 2 = 1 THEN IsAtomToken(ts[i]) ELSE ts[i] \in TierOps(n)

\* ((x1 op x2) op x3) .. of the first k tokens, and x_i op (x_i+1 op (..))
RECURSIVE LeftFold(_, _), RightFold(_, _)
LeftFold(ts, k) ==
    IF k = 1 THEN AtomTree(ts[1])
    ELSE <<ts[k - 1], LeftFold(ts, k - 2), AtomTree(ts[k])>>
RightFold(ts, i) ==
    IF i = Len(ts) THEN AtomTree(ts[i])
    ELSE <<ts[i + 1], AtomTree(ts[i]), RightFold(ts, i + 2)>>

\* C13 as stated: a chain of `**` is consumed entirely and nests to the right;
\* a chain of operators of any other binary tier, comparison and equality
\* included, is consumed entirely and nests to the left.
C13_AllTiersFold ==
    \A n \in 3..10 :
        IsChain(toks, n) =>
            full = IF n = 3 THEN EOk(Len(toks), RightFold(toks, 1))
                   ELSE EOk(Len(toks), LeftFold(toks, Len(toks)))

\* C13: a chain of `**` is consumed entirely and nests to the right; a chain
\* of mul/div, add/sub, `&`, `^` or `|` operators is consumed entirely and
\* nests to the left; of a chain of comparison or of equality operators only
\* `x1 op x2` is consumed and the cursor stays on the second operator.
C13_Associativity ==
    \A n \in 3..10 :
        IsChain(toks, n) =>
            full = CASE n = 3 -> EOk(Len(toks), RightFold(toks, 1))
                     [] n \in 4..8 -> EOk(Len(toks), LeftFold(toks, Len(toks)))
                     [] OTHER -> EOk(3, LeftFold(toks, 3))

\* "R * L / C" is (R * L) / C
C13_Witness ==
    /\ toks = <<"R", "*", "L", "/", "C">>
    /\ full = EOk(5, <<"/", <<"*", <<"ident", "R">>, <<"ident", "L">>>>, <<"ident", "C">>>>)

----------------------------------------------------------------------------
(***************************************************************************)
(* Numbers with an engineering suffix: SuffixNumberParser::to_number       *)
(* (value.rs).  A value is kept as its coefficient text and the suffix     *)
(* that multiplies it.  The coefficients of the model are digits with an   *)
(* optional fraction; signs, exponents and inf/nan are left to `double`.   *)
(***************************************************************************)
\* the same alternatives with the one-letter tags first
SuffixOrderShortFirst ==
    << [tag |-> <<"t">>, suffix |-> "Tera"],
       [tag |-> <<"g">>, suffix |-> "Giga"],
       [tag |-> <<"k">>, suffix |-> "Kilo"],
       [tag |-> <<"m">>, suffix |-> "Milli"],
       [tag |-> <<"m", "e", "g">>, suffix |-> "Mega"],
       [tag |-> <<"m", "i", "l">>, suffix |-> "Mil"],
       [tag |-> <<"u">>, suffix |-> "Micro"],
       [tag |-> <<"n">>, suffix |-> "Nano"],
       [tag |-> <<"p">>, suffix |-> "Pico"],
       [tag |-> <<"f">>, suffix |-> "Femto"],
       [tag |-> <<"a">>, suffix |-> "Atto"] >>

\* value.rs 70-84: the alternatives of parse_suffix in the order alt tries them
SuffixOrder ==
    << [tag |-> <<"t">>, suffix |-> "Tera"],
       [tag |-> <<"g">>, suffix |-> "Giga"],
       [tag |-> <<"m", "e", "g">>, suffix |-> "Mega"],
       [tag |-> <<"k">>, suffix |-> "Kilo"],
       [tag |-> <<"m", "i", "l">>, suffix |-> "Mil"],
       [tag |-> <<"m">>, suffix |-> "Milli"],
       [tag |-> <<"u">>, suffix |-> "Micro"],
       [tag |-> <<"n">>, suffix |-> "Nano"],
       [tag |-> <<"p">>, suffix |-> "Pico"],
       [tag |-> <<"f">>, suffix |-> "Femto"],
       [tag |-> <<"a">>, suffix |-> "Atto"] >>

\* value.rs 46-62: Suffix::factor as <<mantissa, power of ten>>
Factor(suffix) ==
    CASE suffix = "Tera" -> <<"1", 12>>
      [] suffix = "Giga" -> <<"1", 9>>
      [] suffix = "Mega" -> <<"1", 6>>
      [] suffix = "Kilo" -> <<"1", 3>>
      [] suffix = "Mil" -> <<"25.4", 0 - 6>>
      [] suffix = "Milli" -> <<"1", 0 - 3>>
      [] suffix = "Micro" -> <<"1", 0 - 6>>
      [] suffix = "Nano" -> <<"1", 0 - 9>>
      [] suffix = "Pico" -> <<"1", 0 - 12>>
      [] suffix = "Femto" -> <<"1", 0 - 15>>
      [] suffix = "Atto" -> <<"1", 0 - 18>>
      [] OTHER -> <<"1", 0>>

\* alt((..)): the first alternative of `order` whose tag begins the text, "" when
\* every alternative fails
RECURSIVE FirstTag(_, _, _)
FirstTag(order, i, rest) ==
    IF i > Len(order) THEN ""
    ELSE IF StartsWith(rest, order[i].tag) THEN order[i].suffix
    ELSE FirstTag(order, i + 1, rest)

\* value.rs 70-84
ParseSuffix(rest) == FirstTag(SuffixOrder, 1, rest)

\* how many characters from the k-th on are digits
RECURSIVE DigitRun(_, _)
DigitRun(cs, k) ==
    IF k <= Len(cs) /\ IsAsciiDigit(cs[k]) THEN 1 + DigitRun(cs, k + 1) ELSE 0

\* nom `double` on the coefficients of the model: the length of the longest
\* prefix `digits [. [digits]]` or `. digits`, 0 when there is none
DoubleLen(cs) ==
    LET int == DigitRun(cs, 1)
        frac == DigitRun(cs, int + 2)
    IN IF int > 0
       THEN IF int < Len(cs) /\ cs[int + 1] = "." THEN int + 1 + frac ELSE int
       ELSE IF cs # <<>> /\ cs[1] = "." /\ frac > 0 THEN 1 + frac ELSE 0

\* value.rs 20-27, 86-88: alt((parse_suffix_number(), double)) on the lowercased
\* text; what follows the number is ignored
ToNumberFrom(n, k) ==
    IF k = 0 THEN [st |-> "err", coeff |-> <<>>, suffix |-> "", factor |-> Factor("")]
    ELSE [st |-> "ok",
          coeff |-> SubSeq(n, 1, k),
          suffix |-> ParseSuffix(SubSeq(n, k + 1, Len(n))),
          factor |-> Factor(ParseSuffix(SubSeq(n, k + 1, Len(n))))]

ToNumber(cs) == ToNumberFrom(LowerStr(cs), DoubleLen(LowerStr(cs)))

\* A number typed character by character
SampleNumbers ==
    { <<"1", ".", "5", "M", "E", "g", "o", "h", "M">>,
      <<"3", "2", "m", "i", "l">>,
      <<".", "1", "m", "o", "h", "m">>,
      <<"1", "k">> }

NumChars == {"1", ".", "m", "M", "g", "i", "l", "u"}

NumKeystroke(c) ==
    /\ code' = Append(code, c)
    /\ out' = ToNumber(Append(code, c))
    /\ UNCHANGED <<asmVars, ppVars, incVars, lspVars>>

NumTypeSample ==
    \E s \in SampleNumbers :
        /\ nfree = 0
        /\ Len(code) < Len(s)
        /\ SubSeq(s, 1, Len(code)) = code
        /\ NumKeystroke(s[Len(code) + 1])
        /\ UNCHANGED nfree

NumTypeChar ==
    \E c \in NumChars :
        /\ nfree < MaxChars
        /\ NumKeystroke(c)
        /\ nfree' = nfree + 1

NumNext == NumTypeSample \/ NumTypeChar

SpecNum == LexInit /\ [][NumNext]_vars

\* what follows the coefficient in the typed text, lowercased
SuffixText == SubSeq(LowerStr(code), DoubleLen(LowerStr(code)) + 1, Len(code))

MaxIncs == 2

\* A path is the sequence of its components; a component is a stem and an
\* extension.  An absolute path starts with the root.
Comp(stem, ext) == [stem |-> stem, ext |-> ext]

Root == Comp("/", "")

IsAbsolute(path) == Len(path) > 0 /\ path[1] = Root

\* PathBuf::join: an absolute argument replaces the path, a relative one is
\* pushed after its last component
Join(base, target) == IF IsAbsolute(target) THEN target ELSE base \o target

\* PathBuf::with_extension on a path that ends in a file name
WithExtension(path, ext) == [path EXCEPT ![Len(path)].ext = ext]

\* Path::parent
Parent(path) == Front(path)

FileA == <<Root, Comp("d", ""), Comp("a", "cir")>>

FileB == <<Root, Comp("d", ""), Comp("b", "cir")>>

FileC == <<Root, Comp("d", ""), Comp("c", "cir")>>

LibA == <<Root, Comp("d", ""), Comp("a", "lib")>>

RelB == <<Comp("b", "cir")>>

\* LibCommand.filename = None
NoTarget == <<>>

\* the instructions the expander tells apart
Inc(target) == [k |-> "inc", target |-> target, id |-> "-"]

Lib(target) == [k |-> "lib", target |-> target, id |-> "-"]

Other(id) == [k |-> "other", target |-> NoTarget, id |-> id]

\* what try_parse_program makes of a file's content
Parsed(ins) == [st |-> "ok", ins |-> ins]

Unparsable == [st |-> "err"]

TopItems == {Inc(FileA), Inc(FileB), Inc(RelB), Lib(NoTarget), Other("R1")}

ContentsB == {Parsed(<<Other("R2")>>), Parsed(<<Inc(FileA)>>), Parsed(<<Inc(FileC)>>),
              Parsed(<<Lib(NoTarget)>>), Parsed(<<Lib(FileC), Other("R2")>>), Unparsable}

ContentsC == {Parsed(<<Other("R3")>>), Parsed(<<Inc(FileA)>>), Parsed(<<Inc(FileB)>>)}

\* the path work is called with for an instruction of the file filename
Callee(filename, ins) ==
    CASE ins.k = "inc" -> Join(filename, ins.target)
      [] ins.k = "lib" /\ ins.target # NoTarget -> Join(filename, ins.target)
      [] ins.k = "lib" /\ ins.target = NoTarget -> WithExtension(filename, "lib")

\* a call of work: the file, where the call stands, the instructions of the
\* file still to visit, and the local instructions
Frame(filename, st, todo, acc) ==
    [file |-> filename, st |-> st, todo |-> todo, acc |-> acc]

Entering(filename) == Frame(filename, "enter", <<>>, <<>>)

Expanded(ins) == [kind |-> "ok", instructions |-> ins]

ErrResult(reason, filename) == [kind |-> "err", reason |-> reason, file |-> filename]

ReadPanic(filename) == [kind |-> "panic", reason |-> "read_to_string", file |-> filename]

\* the files whose call of work is in progress below the innermost call
InclusionPath == {calls[i].file : i \in 1..(Len(calls) - 1)}

IncInit ==
    /\ AsmIdle
    /\ toks = <<>> /\ free = 0 /\ log = <<>> /\ full = NoResult
    /\ code = <<>> /\ nfree = 0 /\ out = NoResult
    /\ \E a \in SeqsUpTo(TopItems, MaxIncs), b \in ContentsB, c \in ContentsC :
           fs = (FileA :> Parsed(a)) @@ (FileB :> b) @@ (FileC :> c)
                @@ (LibA :> Parsed(<<Other("M1")>>))
    /\ visit = {}
    /\ calls = <<Entering(FileA)>>
    /\ ret = NoResult
    /\ LspIdle

IncUnchanged == UNCHANGED <<asmVars, ppVars, lexVars, fs, lspVars>>

\* work, lines 42-50: the visit test, the insert, the read and the parse
IncEnterReject ==
    /\ calls # <<>> /\ Last(calls).st = "enter"
    /\ Last(calls).file \in visit
    /\ ret' = ErrResult("Recursive include detected", Last(calls).file)
    /\ calls' = Front(calls)
    /\ UNCHANGED visit
    /\ IncUnchanged

IncEnterPanic ==
    /\ calls # <<>> /\ Last(calls).st = "enter"
    /\ Last(calls).file \notin visit
    /\ Last(calls).file \notin DOMAIN fs
    /\ visit' = visit \cup {Last(calls).file}
    /\ ret' = ReadPanic(Last(calls).file)
    /\ calls' = <<>>
    /\ IncUnchanged

IncEnterParseError ==
    /\ calls # <<>> /\ Last(calls).st = "enter"
    /\ Last(calls).file \notin visit
    /\ Last(calls).file \in DOMAIN fs
    /\ fs[Last(calls).file].st = "err"
    /\ visit' = visit \cup {Last(calls).file}
    /\ ret' = ErrResult("ParseError", Last(calls).file)
    /\ calls' = Front(calls)
    /\ IncUnchanged

IncEnterOk ==
    /\ calls # <<>> /\ Last(calls).st = "enter"
    /\ Last(calls).file \notin visit
    /\ Last(calls).file \in DOMAIN fs
    /\ fs[Last(calls).file].st = "ok"
    /\ visit' = visit \cup {Last(calls).file}
    /\ calls' = Front(calls) \o
                <<Frame(Last(calls).file, "run", fs[Last(calls).file].ins, <<>>)>>
    /\ UNCHANGED ret
    /\ IncUnchanged

\* the loop body, lines 53-73: an include calls work, anything else is pushed
IncStepCall ==
    /\ calls # <<>> /\ Last(calls).st = "run" /\ Last(calls).todo # <<>>
    /\ Head(Last(calls).todo).k \in {"inc", "lib"}
    /\ calls' = Front(calls) \o
                <<[Last(calls) EXCEPT !.st = "wait"],
                  Entering(Callee(Last(calls).file, Head(Last(calls).todo)))>>
    /\ UNCHANGED <<visit, ret>>
    /\ IncUnchanged

IncStepPush ==
    /\ calls # <<>> /\ Last(calls).st = "run" /\ Last(calls).todo # <<>>
    /\ Head(Last(calls).todo).k = "other"
    /\ calls' = Front(calls) \o
                <<[Last(calls) EXCEPT !.todo = Tail(@),
                                      !.acc = Append(@, Head(Last(calls).todo))]>>
    /\ UNCHANGED <<visit, ret>>
    /\ IncUnchanged

\* lines 75-77: the loop is over, the call returns its program
IncReturn ==
    /\ calls # <<>> /\ Last(calls).st = "run" /\ Last(calls).todo = <<>>
    /\ ret' = Expanded(Last(calls).acc)
    /\ calls' = Front(calls)
    /\ UNCHANGED visit
    /\ IncUnchanged

\* self.work(..)? followed by instructions.append: what the caller does with
\* what its callee returned, as <<calls, ret>>
AfterCallTruncate(cs, r) ==
    IF r.kind = "err"
    THEN <<Front(cs) \o <<[Last(cs) EXCEPT !.st = "run", !.todo = Tail(@)]>>, NoResult>>
    ELSE <<Front(cs) \o <<[Last(cs) EXCEPT !.st = "run", !.todo = Tail(@),
                                           !.acc = @ \o r.instructions]>>, NoResult>>

AfterCall(cs, r) ==
    IF r.kind = "err"
    THEN <<Front(cs), r>>
    ELSE <<Front(cs) \o <<[Last(cs) EXCEPT !.st = "run", !.todo = Tail(@),
                                           !.acc = @ \o r.instructions]>>, NoResult>>

IncResume ==
    /\ calls # <<>> /\ Last(calls).st = "wait"
    /\ ret.kind \in {"ok", "err"}
    /\ calls' = AfterCall(calls, ret)[1]
    /\ ret' = AfterCall(calls, ret)[2]
    /\ UNCHANGED visit
    /\ IncUnchanged

IncNext ==
    \/ IncEnterReject
    \/ IncEnterPanic
    \/ IncEnterParseError
    \/ IncEnterOk
    \/ IncStepCall
    \/ IncStepPush
    \/ IncReturn
    \/ IncResume

SpecInc == IncInit /\ [][IncNext]_vars

\* --------------------------------------------------------------------------
\* C15: when the expansion reaches a file that is already being expanded, the
\* call is rejected with an error, and every caller that receives an error
\* returns that same error at once: the error climbs one call per step up to
\* the top-level call, no caller goes on with the instructions it has left
\* and no Program is returned in its place.
\* --------------------------------------------------------------------------
CycleReached ==
    /\ calls # <<>> /\ Last(calls).st = "enter"
    /\ Last(calls).file \in InclusionPath

C15_CycleAborts ==
    [][/\ CycleReached =>
            /\ ret'.kind = "err" /\ ret'.file = Last(calls).file
            /\ calls' = Front(calls)
       /\ (ret.kind = "err" /\ calls # <<>>) =>
            /\ ret' = ret
            /\ calls' = Front(calls)]_vars

\* the cycle a -> b -> a was reached from a.cir after it had pushed R1: the
\* error is on its way up through b.cir and a.cir, whose instruction R1 is
\* about to be dropped
C15_Witness ==
    /\ ret = ErrResult("Recursive include detected", FileA)
    /\ Len(calls) = 2
    /\ calls[1].file = FileA /\ calls[1].acc = <<Other("R1")>>
    /\ calls[2].file = FileB /\ calls[2].st = "wait"

\* --------------------------------------------------------------------------
\* C16: a call of work is rejected exactly when its file is on the current
\* inclusion path, that is when a call for the same file is still in progress
\* below it; a file whose expansion has finished is expanded again.
\* --------------------------------------------------------------------------
WillReject ==
    /\ calls # <<>> /\ Last(calls).st = "enter"
    /\ Last(calls).file \in visit

C16_RejectIffOnPath == WillReject <=> CycleReached

\* --------------------------------------------------------------------------
\* C17: the file a call of work is made for is, for a relative .INC or .LIB
\* target, the target resolved against the directory that contains the
\* including file, and for a .LIB without a filename the including file's
\* path with its extension replaced by lib.
\* --------------------------------------------------------------------------
ResolveInDirectory(filename, target) ==
    IF IsAbsolute(target) THEN target ELSE Parent(filename) \o target

C17_RelativeToDirectory ==
    \A i \in 2..Len(calls) :
        LET caller == calls[i - 1]
            ins    == Head(caller.todo)
        IN  /\ (ins.k = "inc" \/ ins.target # NoTarget) =>
                   calls[i].file = ResolveInDirectory(caller.file, ins.target)
            /\ (ins.k = "lib" /\ ins.target = NoTarget) =>
                   calls[i].file = WithExtension(caller.file, "lib")

\* --------------------------------------------------------------------------
\* C18: when all lines parse and some .ENDS that carries a name does not name
\* the innermost .SUBCKT open at that line (another name, an outer subcircuit
\* that is still open, or nothing open), the parse returns the structural
\* error "Unmatched .ENDS"; so a parse that returns a Program has accepted a
\* named .ENDS only where it named the innermost open .SUBCKT.
\* --------------------------------------------------------------------------
\* the names of the subcircuits open before line k, innermost last
RECURSIVE OpenBefore(_, _)
OpenBefore(ls, k) ==
    IF k <= 1 THEN <<>>
    ELSE LET open == OpenBefore(ls, k - 1) IN
         CASE ls[k - 1].head = ".SUBCKT" -> Append(open, ls[k - 1].arg)
           [] ls[k - 1].head = ".ENDS" /\ open # <<>> -> Front(open)
           [] OTHER -> open

NamedEndsMismatch(ls, k) ==
    /\ ls[k].head = ".ENDS" /\ ls[k].arg # NoName
    /\ OpenBefore(ls, k) = <<>> \/ Last(OpenBefore(ls, k)) # ls[k].arg

ComponentGrammar(ts) ==
    LET u == UpperStr(Spell(ts[1])) IN
    CASE StartsWith(u, <<"Q">>) -> QComponent
      [] StartsWith(u, <<"R">>) -> RComponent
      [] StartsWith(u, <<"T">>) -> TComponent
      [] OTHER -> <<>>

\* the cursor after the first i fields of the record
CursorAfter(g, ts, i) == TryPartialStruct(SubSeq(g, 1, i), ts, 0).pos

\* the number of tokens field i of the record consumed
Consumed(g, ts, i) == CursorAfter(g, ts, i) - CursorAfter(g, ts, i - 1)

SomeOnlyIfConsumed(g, ts, c) ==
    c.st = "ok" =>
        \A i \in 1..Len(c.fields) : c.fields[i].some => Consumed(g, ts, i) > 0

C19_SomeIffTokensParsed ==
    toks # <<>> => SomeOnlyIfConsumed(ComponentGrammar(toks), toks, Last(log).comp)

\* --------------------------------------------------------------------------
\* The position of a ParseError and the diagnostic built from it.  The typed
\* line is the only line of the document (line 0), its tokens separated by
\* one space.
\* --------------------------------------------------------------------------
TypedLine == 0

\* lexer.rs 174-177: Atom.column of token i, the bytes (st, ed) it takes in
\* its line
RECURSIVE StartOf(_, _)
StartOf(ts, i) == IF i <= 1 THEN 0 ELSE StartOf(ts, i - 1) + Len(Spell(ts[i - 1])) + 1

ColumnOf(ts, i) == <<StartOf(ts, i), StartOf(ts, i) + Len(Spell(ts[i]))>>

\* parse.rs 335-336: st and ed of the line
LineSpan(ts) == <<ColumnOf(ts, 1)[1], ColumnOf(ts, Len(ts))[2]>>

\* ParseError.position of the error r of the line: Some(token.column) of the
\* token the cursor is on, and for unexpected_eof(None) the fallback_position
\* of parse.rs 344, 350
ErrorPosition(ts, r) ==
    IF r.reason.fmt = "Unexpected EOF" THEN LineSpan(ts) ELSE ColumnOf(ts, r.pos + 1)

\* diagnostics.rs 148-155: let (line, col) = err.position; start of the range
DiagnosticStart(position) == [line |-> position[1], character |-> position[2]]

\* --------------------------------------------------------------------------
\* C20: the position of the ParseError of a line is the pair (line, column)
\* of the offending token, so the diagnostic that starts at `position` is on
\* the source line of the error, at the column where the token starts.
\* --------------------------------------------------------------------------
C20_PositionIsLineColumn ==
    (Len(toks) >= 2 /\ full.st = "err") =>
        /\ DiagnosticStart(ErrorPosition(toks, full)).line = TypedLine
        /\ full.reason.fmt # "Unexpected EOF" =>
              ErrorPosition(toks, full) = <<TypedLine, StartOf(toks, full.pos + 1)>>

\* --------------------------------------------------------------------------
\* The position a rule supplies with its error, and the line-level fallback
\* --------------------------------------------------------------------------
\* ParseError.position = None
NoPosition == <<>>

\* the position of the error r as the failing rule built it: token() and
\* next_token() give unexpected_eof(None) (parse.rs 104-115), every other
\* error of the modelled rules Some(token.column) of the token the cursor is on
RulePosition(ts, r) ==
    IF r.reason.fmt = "Unexpected EOF" THEN NoPosition ELSE ColumnOf(ts, r.pos + 1)

\* fallback_position that leaves the position as it is
FallbackKeep(position, span) == position

\* parse.rs 54-59
FallbackPosition(position, span) == IF position = NoPosition THEN span ELSE position

\* parse.rs 338-353: the position of the error of a line: the record parse
\* goes through map_err(fallback_position((st, ed))), expect_eof does not
LineErrorPosition(ts, rec) ==
    IF rec.st = "err"
    THEN FallbackPosition(RulePosition(ts, rec), LineSpan(ts))
    ELSE RulePosition(ts, ExpectEof(ts, rec.pos))

\* the record parse of the line, before expect_eof
RecordParse(ts) ==
    IF IsCommandLine(ts) THEN TryParseCommand(ts, 0) ELSE TryParseComponent(ts, 0)

\* --------------------------------------------------------------------------
\* C21: the error of a line whose grammar rule failed always has a position:
\* the one the failing rule built when it built one, otherwise the span from
\* the start of the line's first token to the end of its last token.
\* --------------------------------------------------------------------------
\* the length of the line's text, which is where its last token ends
RECURSIVE TextLen(_)
TextLen(ts) ==
    IF ts = <<>> THEN 0
    ELSE Len(Spell(Head(ts))) + (IF Tail(ts) = <<>> THEN 0 ELSE 1 + TextLen(Tail(ts)))

C21_ErrorHasPosition ==
    (toks # <<>> /\ full.st = "err") =>
        LET position == LineErrorPosition(toks, RecordParse(toks)) IN
        /\ position # NoPosition
        /\ Len(position) = 2
        /\ IF RulePosition(toks, full) # NoPosition
           THEN position = RulePosition(toks, full)
           ELSE position = <<0, TextLen(toks)>>

\* `R1 1` runs out of tokens at node2: the rule's error has no position and
\* the line's span 0..4 is filled in
C21_Witness ==
    /\ toks = <<"R1", "1">>
    /\ full.st = "err" /\ full.reason.fmt = "Unexpected EOF"
    /\ RulePosition(toks, RecordParse(toks)) = NoPosition
    /\ LineErrorPosition(toks, RecordParse(toks)) = <<0, 4>>

\* --------------------------------------------------------------------------
\* C22: the operators bind, from loosest to tightest, as ternary, equality,
\* comparison, `|`, `^`, `&`, add/sub, mul/div, power, unary, atom: the tree
\* of every parsed expression spans the tokens read, in their order, and no
\* operator has an operand whose own operator binds looser than it does,
\* except inside parentheses, call arguments and the branches of a ternary.
\* --------------------------------------------------------------------------
\* how loosely the operator at the root of a tree binds, 1 being an atom
Looseness(tree) ==
    CASE tree[1] \in {"ident", "lit", "neg", "paren", "call"} -> 1
      [] tree[1] \in {"pos", "minus", "not"} -> 2
      [] tree[1] = "**" -> 3
      [] tree[1] \in {"*", "/"} -> 4
      [] tree[1] \in {"+", "-"} /\ Len(tree) = 3 -> 5
      [] tree[1] = "&" -> 6
      [] tree[1] = "^" -> 7
      [] tree[1] = "|" -> 8
      [] tree[1] \in {"<", ">", "<=", ">="} -> 9
      [] tree[1] \in {"==", "!="} -> 10
      [] tree[1] = "?" -> 11

RECURSIVE TighterInside(_), Flatten(_), FlattenAll(_)
TighterInside(tree) ==
    CASE tree[1] \in {"ident", "lit", "neg"} -> TRUE
      [] tree[1] = "paren" -> TighterInside(tree[2])
      [] tree[1] = "call" -> \A i \in 1..Len(tree[3]) : TighterInside(tree[3][i])
      [] tree[1] \in {"pos", "minus", "not"} ->
            Looseness(tree[2]) <= 2 /\ TighterInside(tree[2])
      [] tree[1] = "?" ->
            /\ Looseness(tree[2]) <= 10
            /\ \A i \in 2..4 : TighterInside(tree[i])
      [] OTHER ->
            /\ Looseness(tree[2]) <= Looseness(tree)
            /\ Looseness(tree[3]) <= Looseness(tree)
            /\ TighterInside(tree[2]) /\ TighterInside(tree[3])

\* the tokens of a tree, left to right
FlattenAll(trees) ==
    IF trees = <<>> THEN <<>> ELSE Flatten(Head(trees)) \o FlattenAll(Tail(trees))
Flatten(tree) ==
    CASE tree[1] \in {"ident", "lit"} -> <<tree[2]>>
      [] tree[1] = "neg" -> <<"-", tree[2]>>
      [] tree[1] = "paren" -> <<"(">> \o Flatten(tree[2]) \o <<")">>
      [] tree[1] = "call" -> <<tree[2], "(">> \o FlattenAll(tree[3]) \o <<")">>
      [] tree[1] = "pos" -> <<"+">> \o Flatten(tree[2])
      [] tree[1] = "minus" -> <<"-">> \o Flatten(tree[2])
      [] tree[1] = "not" -> <<"~">> \o Flatten(tree[2])
      [] tree[1] = "?" ->
            Flatten(tree[2]) \o <<"?">> \o Flatten(tree[3]) \o <<":">> \o Flatten(tree[4])
      [] OTHER -> Flatten(tree[2]) \o <<tree[1]>> \o Flatten(tree[3])

C22_Precedence ==
    (toks # <<>> /\ full.st = "ok") =>
        /\ Flatten(full.tree) = SubSeq(toks, 1, full.pos)
        /\ TighterInside(full.tree)

\* R*L-C/G is (R*L)-(C/G)
C22_Witness ==
    /\ toks = <<"R", "*", "L", "-", "C", "/", "G">>
    /\ full = EOk(7, <<"-", <<"*", <<"ident", "R">>, <<"ident", "L">>>>,
                            <<"/", <<"ident", "C">>, <<"ident", "G">>>>>>)

\* --------------------------------------------------------------------------
\* C23: for every line of the text taken alone, joining the raw texts of its
\* tokens with single spaces and tokenizing the result gives the same
\* sequence of raw texts.
\* --------------------------------------------------------------------------
RECURSIVE JoinWithSpaces(_)
JoinWithSpaces(raws) ==
    IF raws = <<>> THEN <<>>
    ELSE IF Len(raws) = 1 THEN raws[1]
    ELSE raws[1] \o <<" ">> \o JoinWithSpaces(Tail(raws))

RoundTrip(first, again) ==
    first.st = "ok" => (again.st = "ok" /\ Raws(again.atoms) = Raws(first.atoms))

RoundTripLine(first) ==
    RoundTrip(first,
              IF first.st = "ok"
              THEN TokenizeLine(JoinWithSpaces(Raws(first.atoms)), 0)
              ELSE first)

C23_RoundTrip ==
    \A i \in 1..Len(SplitLines(code, <<>>)) :
        RoundTripLine(TokenizeLine(SplitLines(code, <<>>)[i], 0))

\* --------------------------------------------------------------------------
\* C24: every line of tokens that tokenize hands to the parser is non-empty,
\* and each of its tokens comes from a source line that is neither a comment
\* line nor empty nor whitespace only.
\* --------------------------------------------------------------------------
IsBlankLine(line) == \A k \in 1..Len(line) : IsWhitespaceChar(line[k])

FromContentLine(ls, atom) ==
    /\ atom.line + 1 \in 1..Len(ls)
    /\ ~IsCommentLine(ls[atom.line + 1])
    /\ ~IsBlankLine(ls[atom.line + 1])

NonEmptyLines(ls, r) ==
    r.st = "ok" =>
        \A i \in 1..Len(r.lines) :
            /\ r.lines[i] # <<>>
            /\ \A k \in 1..Len(r.lines[i]) : FromContentLine(ls, r.lines[i][k])

C24_LinesNonEmpty == code # <<>> => NonEmptyLines(SplitLines(code, <<>>), out)

\* `a;c`, the comment line `*c` and the continuation `+ 1` reach the parser
\* as the one line [a, 1]
C24_Witness ==
    /\ code = <<"a", ";", "c", "\n", "*", "c", "\n", "+", " ", "1">>
    /\ out.st = "ok"
    /\ Len(out.lines) = 1
    /\ Raws(out.lines[1]) = << <<"a">>, <<"1">> >>

\* --------------------------------------------------------------------------
\* C25: the parse of a line returns Ok or a ParseError, whatever the line; a
\* line that begins with an unknown or not yet supported dot-command is an
\* error.
\* --------------------------------------------------------------------------
C25_ParseIsTotal ==
    toks # <<>> =>
        /\ full.st \in {"ok", "err"}
        /\ (IsCommandLine(toks)
            /\ UpperStr(Spell(toks[1])) \notin {Spell(".AC"), Spell(".TEMP")})
              => full.st = "err"

\* --------------------------------------------------------------------------
\* C26: in a line that is not a comment, the first quoted segment (from a
\* quote that is not in an inline comment to the next quote) is exactly one
\* Atom with both quotes, whatever stands between them, and the tokens
\* before and after it are those of the text before and after it.
\* --------------------------------------------------------------------------
QuoteIndices(line) == {k \in 1..Len(line) : line[k] = "\""}

\* the k-th smallest element of a set of numbers
Nth(S, n) == CHOOSE k \in S : Cardinality({x \in S : x < k}) = n - 1

\* the raw texts of a piece of a line scanned on its own
PieceRaws(piece) == Raws(ScanLine(piece, Offs(piece), 0).atoms)

QuotedVerbatim(line, r, q1, q2) ==
    (r.st = "ok" /\ \A k \in 1..q1 : line[k] # ";"
       /\ ScanLine(SubSeq(line, 1, q1 - 1), Offs(SubSeq(line, 1, q1 - 1)), 0).st = "ok")
        => Raws(r.atoms) = PieceRaws(SubSeq(line, 1, q1 - 1))
                           \o <<SubSeq(line, q1, q2)>>
                           \o PieceRaws(BeforeSemicolon(SubSeq(line, q2 + 1, Len(line))))

QuotedVerbatimLine(line) ==
    (~IsCommentLine(line) /\ Cardinality(QuoteIndices(line)) >= 2)
        => QuotedVerbatim(line, TokenizeLine(line, 0),
                          Nth(QuoteIndices(line), 1), Nth(QuoteIndices(line), 2))

C26_QuotedIsOneAtom ==
    \A i \in 1..Len(SplitLines(code, <<>>)) : QuotedVerbatimLine(SplitLines(code, <<>>)[i])

\* ==========================================================================
\* The language server's document cache
\* lsp-server/src/state.rs, lsp-server/src/handler/diagnostics.rs,
\* lsp-server/src/server.rs.  One document (one Url) is modelled.  A handler
\* is a future: between two of its awaits it runs alone, and the state behind
\* Arc<Mutex<ServerState>> is only touched while the lock is held, so each
\* locked section is one step.  The awaits that only write a log message
\* change nothing and are not steps of their own.
\* ==========================================================================

\* the number of notifications the client sends
MaxNotes == 3

\* the handler futures that can be in flight together
TaskIds == {"h1", "h2"}

\* texts of the document, as the token line they scan to
GoodText == <<"R1", "1", "1", "1k">>
NewerText == <<"R1", "1", "1", "1">>
BadText == <<"R1", "1">>
McText == <<".mc", "1">>
NoText == <<>>

DocTexts == {GoodText, NewerText, BadText, McText}

\* TextDocumentContentChangeEvent: range None is a full-text change
FullChange(text) == [range |-> FALSE, text |-> text]
RangeChange(text) == [range |-> TRUE, text |-> text]

\* DidChangeTextDocumentParams.content_changes of the notifications sent
SampleChanges ==
    { <<>>,
      <<FullChange(GoodText)>>, <<FullChange(NewerText)>>,
      <<FullChange(BadText)>>, <<FullChange(McText)>>,
      <<FullChange(BadText), FullChange(GoodText)>>,
      <<FullChange(GoodText), FullChange(NewerText)>>,
      <<RangeChange(<<"1k">>)>> }

\* what fs::read_to_string finds behind the uri: a file's text, or an error
NoFile == [kind |-> "none"]
FileOf(text) == [kind |-> "file", text |-> text]
DiskContents == {FileOf(GoodText), NoFile}

NoAst == [kind |-> "none"]
\* the Program of a one-line text keeps the line's tokens
ProgramOf(text) == [kind |-> "program", text |-> text]
\* SymbolTable::build_from_ast
SymbolsOf(program) == [kind |-> "symbols", text |-> program.text]

\* lib.rs 23-27 try_parse_program on the text of the document
ParseOutcome(source, rec, r) ==
    CASE r.st = "ok" -> [st |-> "ok", program |-> ProgramOf(source)]
      [] r.st = "err" -> [st |-> "err", reason |-> r.reason,
                          position |-> LineErrorPosition(source, rec)]
      [] OTHER -> [st |-> "panic"]

ParseLineSource(source, rec) ==
    ParseOutcome(source, rec, ThenExpectEof(source, rec))

ParseSource(source) ==
    IF source = NoText THEN [st |-> "ok", program |-> ProgramOf(NoText)]
    ELSE ParseLineSource(source, RecordParse(source))

\* diagnostics.rs 148-160: the one Diagnostic of a parse error
DiagnosticOf(err) ==
    [start |-> DiagnosticStart(IF err.position = NoPosition THEN <<0, 0>>
                               ELSE err.position),
     message |-> err.reason]

IdleTask == [pc |-> "idle"]
OpenTask(text) == [pc |-> "store", kind |-> "open", text |-> text]
ChangeTask(changes) == [pc |-> "store", kind |-> "change", changes |-> changes]
ReadTask(t, source, parsed) ==
    IF parsed.st = "panic" THEN IdleTask
    ELSE [pc |-> "finish", kind |-> t.kind, source |-> source, parsed |-> parsed]

\* the text reparse_and_publish clones: doc.text, or the default String
SourceOf(d) == IF d = NoResult THEN NoText ELSE d.text

InFlight == {h \in TaskIds : tasks[h].pc # "idle"}
Quiescent == InFlight = {}

LspInit ==
    /\ AsmIdle
    /\ toks = <<>> /\ free = 0 /\ log = <<>> /\ full = NoResult
    /\ code = <<>> /\ nfree = 0 /\ out = NoResult
    /\ IncIdle
    /\ doc = NoResult
    /\ tasks = [h \in TaskIds |-> IdleTask]
    /\ diags = <<>>
    /\ notes = 0
    /\ overlap = FALSE

LspUnchanged == UNCHANGED <<asmVars, ppVars, lexVars, incVars>>

\* server.rs 58-63: a did_open notification starts a handler
LspDidOpen(h, text) ==
    /\ notes < MaxNotes
    /\ tasks[h].pc = "idle"
    /\ tasks' = [tasks EXCEPT ![h] = OpenTask(text)]
    /\ notes' = notes + 1
    /\ overlap' = (overlap \/ InFlight # {})
    /\ UNCHANGED <<doc, diags>>
    /\ LspUnchanged

\* server.rs 65-70: a did_change notification starts a handler
LspDidChange(h, changes) ==
    /\ notes < MaxNotes
    /\ tasks[h].pc = "idle"
    /\ tasks' = [tasks EXCEPT ![h] = ChangeTask(changes)]
    /\ notes' = notes + 1
    /\ overlap' = (overlap \/ InFlight # {})
    /\ UNCHANGED <<doc, diags>>
    /\ LspUnchanged

\* diagnostics.rs 15-24 on_did_open: documents.insert(uri, DocumentState
\* { text, ast: None, symbols: None })
LspStoreOpen(h) ==
    /\ tasks[h].pc = "store"
    /\ tasks[h].kind = "open"
    /\ doc' = [kind |-> "doc", text |-> tasks[h].text,
               ast |-> NoAst, symbols |-> NoAst]
    /\ tasks' = [tasks EXCEPT ![h].pc = "read"]
    /\ UNCHANGED <<diags, notes, overlap>>
    /\ LspUnchanged

\* diagnostics.rs 65-86: the text a did_change leaves in an open document;
\* only content_changes.first() is looked at, a change with a range makes
\* the handler read the file again
ChangedText(text, changes, disk) ==
    IF changes = <<>> THEN text
    ELSE IF ~ Head(changes).range THEN Head(changes).text
    ELSE IF disk = NoFile THEN text
    ELSE disk.text

\* diagnostics.rs 63-88 on_did_change, the section under the first lock
LspStoreChange(h, disk) ==
    /\ tasks[h].pc = "store"
    /\ tasks[h].kind = "change"
    /\ doc' = IF doc = NoResult THEN doc
              ELSE [doc EXCEPT !.text = ChangedText(doc.text, tasks[h].changes, disk)]
    /\ tasks' = [tasks EXCEPT ![h].pc = "read"]
    /\ UNCHANGED <<diags, notes, overlap>>
    /\ LspUnchanged

\* diagnostics.rs 109-117 reparse_and_publish: the text is cloned under the
\* lock and parsed after the lock is released; a panic of the parser ends
\* the handler
LspRead(h) ==
    /\ tasks[h].pc = "read"
    /\ tasks' = [tasks EXCEPT ![h] =
                    ReadTask(tasks[h], SourceOf(doc), ParseSource(SourceOf(doc)))]
    /\ UNCHANGED <<doc, diags, notes, overlap>>
    /\ LspUnchanged

\* diagnostics.rs 118-145, the Ok arm: the program and its symbol table are
\* stored in the document under the lock; nothing is published
LspCache(h) ==
    /\ tasks[h].pc = "finish"
    /\ tasks[h].parsed.st = "ok"
    /\ doc' = IF doc = NoResult THEN doc
              ELSE [doc EXCEPT !.ast = tasks[h].parsed.program,
                               !.symbols = SymbolsOf(tasks[h].parsed.program)]
    /\ tasks' = [tasks EXCEPT ![h] = IdleTask]
    /\ UNCHANGED <<diags, notes, overlap>>
    /\ LspUnchanged

\* diagnostics.rs 146-168, the Err arm: one diagnostic is published; the
\* document is not touched
LspPublish(h) ==
    /\ tasks[h].pc = "finish"
    /\ tasks[h].parsed.st = "err"
    /\ diags' = <<DiagnosticOf(tasks[h].parsed)>>
    /\ tasks' = [tasks EXCEPT ![h] = IdleTask]
    /\ UNCHANGED <<doc, notes, overlap>>
    /\ LspUnchanged

LspNext ==
    \/ \E h \in TaskIds, text \in DocTexts : LspDidOpen(h, text)
    \/ \E h \in TaskIds, changes \in SampleChanges : LspDidChange(h, changes)
    \/ \E h \in TaskIds : LspStoreOpen(h)
    \/ \E h \in TaskIds, disk \in DiskContents : LspStoreChange(h, disk)
    \/ \E h \in TaskIds : LspRead(h)
    \/ \E h \in TaskIds : LspCache(h)
    \/ \E h \in TaskIds : LspPublish(h)

SpecLsp == LspInit /\ [][LspNext]_vars

\* what a cache holds when it was derived from the document's current text
CurrentAst == ProgramOf(doc.text)
CurrentSymbols == SymbolsOf(ProgramOf(doc.text))

\* --------------------------------------------------------------------------
\* C27: the cached artifacts are invalidated on every edit: once a did_change
\* of an open document has been handled to its end (no handler in flight,
\* and the handlers ran one after the other), the cached AST and the cached
\* symbol table are each absent or derived from the current text.
\* --------------------------------------------------------------------------
C27_CacheInvalidatedOnEdit ==
    (Quiescent /\ ~ overlap /\ doc # NoResult) =>
        /\ doc.ast \in {NoAst, CurrentAst}
        /\ doc.symbols \in {NoAst, CurrentSymbols}

\* --------------------------------------------------------------------------
\* C28: whatever the interleaving of the handlers' locked sections, once all
\* handlers have completed, a document whose stored text parses has the AST
\* and the symbol table of that text in its cache: the reparse of an older
\* text has not overwritten them.
\* --------------------------------------------------------------------------
C28_NewestReparseWins ==
    (Quiescent /\ doc # NoResult /\ ParseSource(SourceOf(doc)).st = "ok") =>
        /\ doc.ast = CurrentAst
        /\ doc.symbols = CurrentSymbols

AllFull(changes) == \A i \in 1..Len(changes) : ~ changes[i].range

\* --------------------------------------------------------------------------
\* C29: the locked section of on_did_change applies every content change of
\* the notification: when all of them are full-text changes, the text it
\* leaves in an open document is the text of the last change.
\* --------------------------------------------------------------------------
C29_AllChangesApplied ==
    [][\A h \in TaskIds :
          ( /\ tasks[h].pc = "store"
            /\ tasks[h].kind = "change"
            /\ tasks'[h].pc = "read"
            /\ doc # NoResult
            /\ tasks[h].changes # <<>>
            /\ AllFull(tasks[h].changes) )
          => doc'.text = Last(tasks[h].changes).text]_vars

\* --------------------------------------------------------------------------
\* C30: diagnostics are cleared when the document parses again: once the
\* reparse of a text that parses has completed (its AST is cached, no
\* handler is in flight, the handlers ran one after the other), the list
\* last published for the document is empty.
\* --------------------------------------------------------------------------
C30_DiagnosticsCleared ==
    (Quiescent /\ ~ overlap /\ doc # NoResult /\ doc.ast = CurrentAst) =>
        diags = <<>>

====
